---- MODULE Spec2Model ----
(***************************************************************************)
(* A state-machine model of es.py: the ask/tell evolution strategies       *)
(* OpenES, PEPG, SimpleGA and the novelty-search family, with the rank     *)
(* transform, weight decay and the inner step optimizers they use.         *)
(*                                                                         *)
(* Real numbers are exact rationals <<n, d>> (d > 0, lowest terms), so     *)
(* every float64 update is computed as the code computes it, without       *)
(* rounding.  The float32 arrays of the rank transform are rounded as      *)
(* float32 rounds (see F32), and Adam, with its square roots, is computed  *)
(* in decimal floating point of eight digits (see AdamMoments).            *)
(*                                                                         *)
(* A strategy object is the record `self`, with the field names of the     *)
(* source.                                                                 *)
(***************************************************************************)
EXTENDS Integers, Sequences, FiniteSets, TLC

VARIABLES self, ret, ntell, nask, last_ask, evaluating, nevals

vars == <<self, ret, ntell, nask, last_ask, evaluating, nevals>>

(***************************************************************************)
(* Bounds of the model.                                                    *)
(***************************************************************************)
\* the caller's evaluation budget: every tell() that returns reports the
\* scores of popsize evaluated candidates, and at most MaxEvals candidates
\* are evaluated in all
MaxEvals == 6

\* raw scores handed to tell() are the integers 0..MaxScore
MaxScore == 1

\* values a standard-normal draw takes in the model
NoiseVals == {-1, 2}

\* values an entry of the mean handed to set_mu() takes in the model
MuVals == {1}

(***************************************************************************)
(* Exact rational arithmetic.                                              *)
(***************************************************************************)
Abs(n) == IF n < 0 THEN -n ELSE n

Min2(a, b) == IF a < b THEN a ELSE b

RECURSIVE GCD(_, _)
GCD(a, b) == IF b = 0 THEN a ELSE GCD(b, a % b)

\* The float NaN, as numpy's 0/0 gives it (with a RuntimeWarning, no
\* exception): the pair with denominator 0.  NaN is contagious in + - * /
\* and every comparison with it is False.
NaN == <<1, 0>>

IsNaN(a) == a = NaN

\* n/d in lowest terms; 0/0 is NaN (no other division by zero arises)
R(n, d) ==
    IF d = 0 THEN NaN
    ELSE
    LET s == IF d < 0 THEN -1 ELSE 1
        g == GCD(Abs(n), Abs(d))
    IN  <<(s * n) \div g, (s * d) \div g>>

Zero == <<0, 1>>

One == <<1, 1>>

Half == <<1, 2>>

RInt(n) == <<n, 1>>

RNeg(a) == IF IsNaN(a) THEN NaN ELSE <<-a[1], a[2]>>

RAdd(a, b) ==
    IF IsNaN(a) \/ IsNaN(b) THEN NaN
    ELSE
    LET g == GCD(a[2], b[2])
    IN  R(a[1] * (b[2] \div g) + b[1] * (a[2] \div g), (a[2] \div g) * b[2])

RSub(a, b) == RAdd(a, RNeg(b))

RMul(a, b) ==
    IF IsNaN(a) \/ IsNaN(b) THEN NaN
    ELSE
    LET g1 == GCD(Abs(a[1]), b[2])
        g2 == GCD(Abs(b[1]), a[2])
    IN  R((a[1] \div g1) * (b[1] \div g2), (a[2] \div g2) * (b[2] \div g1))

\* b # 0
RDiv(a, b) == IF IsNaN(b) THEN NaN ELSE RMul(a, R(b[2], b[1]))

\* the numerators of a and b over their common denominator
RCommon(a, b) ==
    IF a[2] = b[2] THEN <<a[1], b[1]>>
    ELSE LET g == GCD(a[2], b[2])
         IN  <<a[1] * (b[2] \div g), b[1] * (a[2] \div g)>>

RLt(a, b) ==
    ~IsNaN(a) /\ ~IsNaN(b) /\ RCommon(a, b)[1] < RCommon(a, b)[2]

RLe(a, b) ==
    ~IsNaN(a) /\ ~IsNaN(b) /\ RCommon(a, b)[1] <= RCommon(a, b)[2]

RGt(a, b) == RLt(b, a)

RGe(a, b) == RLe(b, a)

\* Python's min(a, b): b when b < a, else a (so a when either is NaN)
RMin(a, b) == IF RLt(b, a) THEN b ELSE a

\* np.minimum and np.maximum: NaN when either operand is NaN
np_minimum(a, b) ==
    IF IsNaN(a) \/ IsNaN(b) THEN NaN ELSE IF RLt(b, a) THEN b ELSE a

np_maximum(a, b) ==
    IF IsNaN(a) \/ IsNaN(b) THEN NaN ELSE IF RGt(b, a) THEN b ELSE a

\* int(x) for x >= 0
RFloor(a) == a[1] \div a[2]

RECURSIVE RSum(_)
RSum(s) == IF s = <<>> THEN Zero ELSE RAdd(s[1], RSum(Tail(s)))

\* np.mean of a one-dimensional array
RMean(s) == RDiv(RSum(s), RInt(Len(s)))

(***************************************************************************)
(* float32.  compute_centered_ranks casts the ranks to np.float32 and      *)
(* divides and subtracts in place, and every array computed from its       *)
(* result and other float32 values or Python scalars is float32 again.     *)
(* F32(r) is the float32 nearest to the rational r, ties to the even       *)
(* significand, as an exact rational: a significand of 24 bits times a     *)
(* power of two.  Every number of the model is far from the subnormal and  *)
(* the overflow range of float32, which are not modelled.  An array that   *)
(* takes part in an operation with a float64 array is float64, and the     *)
(* float64 operations of the model's inputs are exact.                     *)
(***************************************************************************)
F32Bits == 24

\* n / d scaled by a power of two into [1, 2): <<n', d', e>> with
\* n / d = (n' / d') * 2^e and d' <= n' < 2 * d'
RECURSIVE F32Norm(_, _, _)
F32Norm(n, d, e) ==
    IF n \div 2 >= d THEN F32Norm(n, 2 * d, e + 1)
    ELSE IF n < d THEN F32Norm(2 * n, d, e - 1)
    ELSE <<n, d, e>>

\* k more binary digits of rem / d after the significand q: the
\* significand and the remainder
RECURSIVE F32Digits(_, _, _, _)
F32Digits(rem, d, k, q) ==
    IF k = 0 THEN <<q, rem>>
    ELSE IF 2 * rem >= d THEN F32Digits(2 * rem - d, d, k - 1, 2 * q + 1)
    ELSE F32Digits(2 * rem, d, k - 1, 2 * q)

\* round to nearest, ties to even
F32Nearest(q, rem, d) ==
    IF 2 * rem > d \/ (2 * rem = d /\ q % 2 = 1) THEN q + 1 ELSE q

\* q / 2^k in lowest terms
RECURSIVE F32Dyadic(_, _)
F32Dyadic(q, k) ==
    IF k <= 0 THEN <<q * 2^(-k), 1>>
    ELSE IF q % 2 = 0 THEN F32Dyadic(q \div 2, k - 1)
    ELSE <<q, 2^k>>

F32Rounded(s) ==
    LET b == F32Digits(s[1] - s[2], s[2], F32Bits - 1, 1)
    IN  F32Dyadic(F32Nearest(b[1], b[2], s[2]), F32Bits - 1 - s[3])

\* a float32 is its own nearest float32: a numerator of at most 24 bits
\* over a small power of two needs no division
F32Exact(r) == r[2] \in {1, 2, 4} /\ Abs(r[1]) < 2^F32Bits

F32(r) ==
    IF IsNaN(r) THEN NaN
    ELSE IF F32Exact(r) THEN r
    ELSE IF r[1] < 0 THEN RNeg(F32Rounded(F32Norm(-r[1], r[2], 0)))
    ELSE F32Rounded(F32Norm(r[1], r[2], 0))

(***************************************************************************)
(* Vectors (sequences of rationals) and matrices (sequences of rows).      *)
(***************************************************************************)
\* the array with the entries f[1], ..., f[n], as a sequence in normal form
Vec(f) == f \o <<>>

Zeros(n) == Vec([j \in 1..n |-> Zero])

VAdd(u, v) == Vec([j \in 1..Len(u) |-> RAdd(u[j], v[j])])

VSub(u, v) == Vec([j \in 1..Len(u) |-> RSub(u[j], v[j])])

VNeg(u) == Vec([j \in 1..Len(u) |-> RNeg(u[j])])

VScale(c, u) == Vec([j \in 1..Len(u) |-> RMul(c, u[j])])

VMul(u, v) == Vec([j \in 1..Len(u) |-> RMul(u[j], v[j])])

\* the float32 sum of the first n entries of u, added up from the left
RECURSIVE F32Sum(_, _)
F32Sum(u, n) ==
    IF n = 0 THEN Zero ELSE F32(RAdd(F32Sum(u, n - 1), u[n]))

\* a float32 array with the entries nearest to those of u
VF32(u) == Vec([j \in 1..Len(u) |-> F32(u[j])])

MNeg(m) == Vec([i \in 1..Len(m) |-> VNeg(m[i])])

\* np.dot(w, m) for a weight vector w (one weight per row) and a matrix m
\* with n columns: the same as np.dot(m.T, w)
DotRows(w, m, n) ==
    Vec([j \in 1..n |->
           RSum(Vec([i \in 1..Len(m) |-> RMul(w[i], m[i][j])]))])

\* m[idx].mean(axis=0)
MeanRows(m, idx, n) ==
    Vec([j \in 1..n |-> RMean(Vec([k \in 1..Len(idx) |-> m[idx[k]][j]]))])

\* s[lo:hi] on 0-based Python bounds, as a 1-based sequence
Slice(s, lo, hi) ==
    LET h == Min2(hi, Len(s))
    IN  IF h <= lo THEN <<>> ELSE Vec([k \in 1..(h - lo) |-> s[lo + k]])

(***************************************************************************)
(* Rank transform and weight decay.                                        *)
(***************************************************************************)
\* x.argsort() is stable on the short arrays of the model and sorts NaN
\* last: the rank of entry i counts the smaller entries, the numbers when
\* entry i is NaN, and the equal entries before it.
compute_ranks(x) ==
    Vec([i \in 1..Len(x) |->
        Cardinality({k \in 1..Len(x) :
            \/ RLt(x[k], x[i])
            \/ ~IsNaN(x[k]) /\ IsNaN(x[i])
            \/ x[k] = x[i] /\ k < i})])

\* the ranks as float32, y /= n - 1 and y -= 0.5 in float32; for n = 1
\* the quotient is 0/0
compute_centered_ranks(x) ==
    LET ranks == compute_ranks(x)
    IN  Vec([i \in 1..Len(x) |->
           F32(RSub(F32(R(ranks[i], Len(x) - 1)), Half))])

\* reward += l2_decay: the sum is stored in the reward array, which is
\* float32 when it comes from compute_centered_ranks
add_in_place(rank_fitness, reward, l2_decay) ==
    IF rank_fitness THEN VF32(VAdd(reward, l2_decay))
    ELSE VAdd(reward, l2_decay)

\* the result of an operation on the rewards of PEPG.tell, which are
\* float32 when they come from compute_centered_ranks
reward_dtype(rank_fitness, x) == IF rank_fitness THEN F32(x) ELSE x

\* -weight_decay * mean(row * row) for each row
compute_weight_decay(weight_decay, model_param_list) ==
    Vec([i \in 1..Len(model_param_list) |->
        RNeg(RMul(weight_decay,
                  RMean(VMul(model_param_list[i], model_param_list[i]))))])

\* np.argsort(x): position p holds the index of the entry of rank p - 1
Argsort(x) ==
    LET ranks == compute_ranks(x)
    IN  Vec([p \in 1..Len(x) |-> CHOOSE i \in 1..Len(x) : ranks[i] = p - 1])

\* Fault variant of np.argsort(x)[::-1]: the reversal is left out.
argsort_unreversed(x) == Argsort(x)

\* np.argsort(x)[::-1]
ArgsortDesc(x) ==
    LET a == Argsort(x)
    IN  Vec([p \in 1..Len(x) |-> a[Len(x) + 1 - p]])

(***************************************************************************)
(* Step optimizers.  An optimizer object is a record; compute_step returns *)
(* the optimizer after the call together with the step.                    *)
(***************************************************************************)
\* An attribute the code has not assigned yet holds no value: the empty
\* sequence for an array, <<0, 0>> (no rational has denominator 0) for a
\* number.
Unset == <<>>

UnsetR == <<0, 0>>

(***************************************************************************)
(* Decimal floating point for Adam.                                        *)
(*                                                                         *)
(* Adam divides by a square root, which no rational holds, and its moments *)
(* m and v range over many orders of magnitude.  They are kept as decimal  *)
(* floats <<c, e>>, standing for c * 10^e, with a mantissa of eight digits *)
(* (FLo <= |c| < FHi) or c = 0 and e = 0.  Every operation truncates its   *)
(* exact result to eight digits.  NaN is the pair <<1, 0>> here as well,   *)
(* which is no normalised float.                                           *)
(***************************************************************************)
\* the mantissa range, and the base in which a mantissa is split in two
\* halves for a product that stays below 2^31
FLo == 10^7

FHi == 10^8

FSplit == 10^4

\* the step Adam returns enters the exact arithmetic of the strategy
\* rounded to the nearest multiple of 1 / FQuantum
FQuantum == 10^5

FZero == <<0, 0>>

Sign(c) == IF c < 0 THEN -1 ELSE 1

\* the normalised float of c * 10^e, for c >= 0
RECURSIVE FNormAbs(_, _)
FNormAbs(c, e) ==
    IF c = 0 THEN FZero
    ELSE IF c >= FHi THEN FNormAbs(c \div 10, e + 1)
    ELSE IF c < FLo THEN FNormAbs(c * 10, e - 1)
    ELSE <<c, e>>

FNorm(c, e) ==
    IF c < 0 THEN LET r == FNormAbs(-c, e) IN <<-r[1], r[2]>>
    ELSE FNormAbs(c, e)

FSigned(s, f) == <<s * f[1], f[2]>>

FNeg(a) == IF IsNaN(a) THEN NaN ELSE <<-a[1], a[2]>>

\* floor(x * y / 10^7) for mantissas x and y
FMulAbs(x1, x0, y1, y0) ==
    (x1 * y1) * 10
    + ((x1 * y0 + x0 * y1 + (x0 * y0) \div FSplit) \div (FSplit \div 10))

FMul(a, b) ==
    IF IsNaN(a) \/ IsNaN(b) THEN NaN
    ELSE IF a[1] = 0 \/ b[1] = 0 THEN FZero
    ELSE FSigned(Sign(a[1]) * Sign(b[1]),
                 FNormAbs(FMulAbs(Abs(a[1]) \div FSplit, Abs(a[1]) % FSplit,
                                  Abs(b[1]) \div FSplit, Abs(b[1]) % FSplit),
                          a[2] + b[2] + 7))

\* c / 10^k, truncated towards zero
FShift(c, k) == IF k > 9 THEN 0 ELSE Sign(c) * (Abs(c) \div 10^k)

\* a + b for |a| at least of the exponent of |b|, with one guard digit
FAddOrdered(a, b) ==
    FNorm(a[1] * 10 + FShift(b[1] * 10, a[2] - b[2]), a[2] - 1)

FAdd(a, b) ==
    IF IsNaN(a) \/ IsNaN(b) THEN NaN
    ELSE IF a[1] = 0 THEN b
    ELSE IF b[1] = 0 THEN a
    ELSE IF a[2] < b[2] THEN FAddOrdered(b, a)
    ELSE FAddOrdered(a, b)

\* k further digits of the quotient q with remainder r of a division by y
RECURSIVE FLongDiv(_, _, _, _)
FLongDiv(r, y, k, q) ==
    IF k = 0 THEN q
    ELSE FLongDiv((r * 10) % y, y, k - 1, q * 10 + (r * 10) \div y)

FDiv(a, b) ==
    IF IsNaN(a) \/ IsNaN(b) \/ b[1] = 0 THEN NaN
    ELSE IF a[1] = 0 THEN FZero
    ELSE FSigned(Sign(a[1]) * Sign(b[1]),
                 FNormAbs(FLongDiv(Abs(a[1]) % Abs(b[1]), Abs(b[1]), 8,
                                   Abs(a[1]) \div Abs(b[1])),
                          a[2] - b[2] - 8))

RECURSIVE ISqrtB(_, _, _)
ISqrtB(x, lo, hi) ==
    IF lo >= hi THEN lo
    ELSE LET mid == (lo + hi + 1) \div 2
         IN  IF mid * mid <= x THEN ISqrtB(x, mid, hi)
             ELSE ISqrtB(x, lo, mid - 1)

\* floor(sqrt(x)) for 0 <= x < 2^31
ISqrt(x) == ISqrtB(x, 0, 46340)

FHalf == <<5 * FLo, -8>>

\* one step of Newton's iteration for the square root of a
FNewton(a, x) == FMul(FHalf, FAdd(x, FDiv(a, x)))

\* np.sqrt: the integer root of the mantissa, refined twice
FSqrt(a) ==
    IF IsNaN(a) \/ a[1] < 0 THEN NaN
    ELSE IF a[1] = 0 THEN FZero
    ELSE IF a[2] % 2 = 0
         THEN FNewton(a, FNewton(a, FNormAbs(ISqrt(a[1]), a[2] \div 2)))
         ELSE FNewton(a, FNewton(a, FNormAbs(ISqrt(a[1] * 10),
                                             (a[2] - 1) \div 2)))

FInt(n) == FNorm(n, 0)

\* the float of a rational
FromR(r) == IF IsNaN(r) THEN NaN ELSE FDiv(FInt(r[1]), FInt(r[2]))

\* the integer nearest to a float, halves rounded away from zero
FRound(f) ==
    IF f[2] >= 0 THEN f[1] * 10^f[2]
    ELSE IF -f[2] > 9 THEN 0
    ELSE Sign(f[1]) * ((Abs(f[1]) + (10^(-f[2])) \div 2) \div 10^(-f[2]))

\* the rational nearest to a float on the grid of 1 / FQuantum
ToR(f) ==
    IF IsNaN(f) THEN NaN
    ELSE R(FRound(FMul(f, FInt(FQuantum))), FQuantum)

\* beta1 = 0.99 and beta2 = 0.999, written as 1 - 1/Beta1Inv, 1 - 1/Beta2Inv
Beta1Inv == 100

Beta2Inv == 1000

\* epsilon = 1e-08
Epsilon == <<FLo, -15>>

\* beta = 1 - 1/inv as a float, and 1 - beta
Beta(inv) == FDiv(FInt(inv - 1), FInt(inv))

OneMinusBeta(inv) == FDiv(FInt(1), FInt(inv))

\* 1 - beta^t, by u(0) = 0, u(t) = beta * u(t-1) + (1 - beta), which has
\* no cancellation
RECURSIVE OneMinusBetaPow(_, _)
OneMinusBetaPow(inv, t) ==
    IF t = 0 THEN FZero
    ELSE FAdd(FMul(Beta(inv), OneMinusBetaPow(inv, t - 1)), OneMinusBeta(inv))

(***************************************************************************)
(* The inner step optimizers.                                              *)
(***************************************************************************)
\* Fault variant of SimpleSGD.compute_step: the step is not negated.
SimpleSGD_compute_step_unnegated(opt, gradient) ==
    [opt |-> opt, step |-> VScale(opt.stepsize, gradient)]

\* class SimpleSGD
SimpleSGD_compute_step(opt, gradient) ==
    [opt |-> opt, step |-> VScale(RNeg(opt.stepsize), gradient)]

\* class SimpleSGDMomentum
SimpleSGDMomentum_compute_step(opt, gradient) ==
    LET v == VAdd(VScale(opt.momentum, opt.v),
                  VScale(RSub(One, opt.momentum), gradient))
    IN  [opt |-> [opt EXCEPT !.v = v],
         step |-> VScale(RNeg(opt.stepsize), v)]

\* a = stepsize * np.sqrt(1 - beta2 ** t) / (1 - beta1 ** t)
Adam_a(stepsize, t) ==
    FDiv(FMul(FromR(stepsize), FSqrt(OneMinusBetaPow(Beta2Inv, t))),
         OneMinusBetaPow(Beta1Inv, t))

\* m = beta1 * m + (1 - beta1) * gradient, for one parameter
Adam_m(m, g) == FAdd(FMul(Beta(Beta1Inv), m), FMul(OneMinusBeta(Beta1Inv), g))

\* v = beta2 * v + (1 - beta2) * (gradient * gradient), for one parameter
Adam_v(v, g) ==
    FAdd(FMul(Beta(Beta2Inv), v), FMul(OneMinusBeta(Beta2Inv), FMul(g, g)))

\* step = -a * m / (np.sqrt(v) + epsilon), for one parameter
Adam_step(a, m, v) == ToR(FDiv(FMul(FNeg(a), m), FAdd(FSqrt(v), Epsilon)))

\* the optimizer and the step after the moments m and v were updated
AdamStepped(opt, t, a, m, v) ==
    [opt |-> [opt EXCEPT !.t = t, !.m = m, !.v = v],
     step |-> Vec([j \in 1..Len(m) |-> Adam_step(a, m[j], v[j])])]

\* The arithmetic of Adam shared by SimpleAdam.compute_step and
\* Adam._compute_step, for the step counter t already incremented.  The
\* floats carry eight digits where the code carries sixteen, so a step
\* agrees with the code's to within 1 / FQuantum for a stepsize up to 1;
\* a NaN in the gradient makes that parameter's m, v and step NaN.
AdamMoments(opt, t, gradient) ==
    AdamStepped(opt, t, Adam_a(opt.stepsize, t),
                Vec([j \in 1..Len(gradient) |->
                       Adam_m(opt.m[j], FromR(gradient[j]))]),
                Vec([j \in 1..Len(gradient) |->
                       Adam_v(opt.v[j], FromR(gradient[j]))]))

\* class SimpleAdam
SimpleAdam_compute_step(opt, gradient) ==
    AdamMoments(opt, opt.t + 1, gradient)

\* optimizer.compute_step(gradient), dispatched on the object's class
compute_step(opt, gradient) ==
    CASE opt.name = "sgd"  -> SimpleSGD_compute_step(opt, gradient)
      [] opt.name = "sgdm" -> SimpleSGDMomentum_compute_step(opt, gradient)
      [] opt.name = "adam" -> SimpleAdam_compute_step(opt, gradient)

\* create_optimizer(parameter_dict, num_params); an unsupported name
\* raises ValueError
create_optimizer(parameter_dict, num_params) ==
    CASE parameter_dict.name = "sgd" ->
            [name |-> "sgd", stepsize |-> parameter_dict.stepsize]
      [] parameter_dict.name = "adam" ->
            [name |-> "adam", stepsize |-> parameter_dict.stepsize,
             m |-> Vec([j \in 1..num_params |-> FZero]),
             v |-> Vec([j \in 1..num_params |-> FZero]), t |-> 0]
      [] parameter_dict.name = "sgdm" ->
            [name |-> "sgdm", stepsize |-> parameter_dict.stepsize,
             momentum |-> parameter_dict.momentum,
             v |-> Zeros(num_params)]
      [] OTHER -> "ValueError"

\* class Adam(Optimizer), as PEPG constructs it: Adam(self, learning_rate)
Adam_init(num_params, stepsize) ==
    [name |-> "Adam", stepsize |-> stepsize,
     m |-> Vec([j \in 1..num_params |-> FZero]),
     v |-> Vec([j \in 1..num_params |-> FZero]), t |-> 0]

\* Optimizer.update(globalg) on the owner's mean theta: the optimizer and
\* the mean after the call.  The returned update ratio is not used by the
\* caller and is not modelled.
Optimizer_update(opt, theta, globalg) ==
    LET r == AdamMoments(opt, opt.t + 1, globalg)
    IN  [opt |-> r.opt, mu |-> VAdd(theta, r.step)]

(***************************************************************************)
(* class OpenES                                                            *)
(***************************************************************************)
\* OpenES.__init__; c is the record of constructor arguments
OpenES_init(c) ==
    [class |-> "OpenES",
     num_params |-> c.num_params,
     sigma_decay |-> c.sigma_decay,
     sigma |-> c.sigma_init,
     sigma_init |-> c.sigma_init,
     sigma_limit |-> c.sigma_limit,
     learning_rate |-> c.learning_rate,
     learning_rate_decay |-> c.learning_rate_decay,
     learning_rate_limit |-> c.learning_rate_limit,
     popsize |-> c.popsize,
     antithetic |-> c.antithetic,
     half_popsize |-> IF c.antithetic THEN c.popsize \div 2 ELSE 0,
     mu |-> Zeros(c.num_params),
     best_mu |-> Zeros(c.num_params),
     best_reward |-> Zero,
     first_interation |-> TRUE,
     forget_best |-> (c.forget_best \/ c.rank_fitness),
     weight_decay |-> c.weight_decay,
     rank_fitness |-> c.rank_fitness,
     optimizer |-> create_optimizer(c.optimizer, c.num_params),
     epsilon |-> Unset,
     solutions |-> Unset,
     curr_best_reward |-> UnsetR,
     curr_best_mu |-> Unset]

\* the shape of the np.random.randn draw of OpenES.ask
OpenES_noise_rows(s) == IF s.antithetic THEN s.half_popsize ELSE s.popsize

\* Fault variant of OpenES.ask: the noise is drawn on the first call only
\* and later populations are built from fresh draws that are not stored.
OpenES_ask_stale_noise(s, z) ==
    LET fresh     == IF s.antithetic THEN z \o MNeg(z) ELSE z
        epsilon   == IF s.epsilon = Unset THEN fresh ELSE s.epsilon
        solutions == Vec([i \in 1..Len(fresh) |->
                        VAdd(s.mu, VScale(s.sigma, fresh[i]))])
    IN  [self |-> [s EXCEPT !.epsilon = epsilon, !.solutions = solutions],
         exc |-> "none", val |-> solutions]

\* OpenES.ask for the standard-normal draw z: the object after the call
\* and the returned population
OpenES_ask(s, z) ==
    LET epsilon   == IF s.antithetic THEN z \o MNeg(z) ELSE z
        solutions == Vec([i \in 1..Len(epsilon) |->
                        VAdd(s.mu, VScale(s.sigma, epsilon[i]))])
    IN  [self |-> [s EXCEPT !.epsilon = epsilon, !.solutions = solutions],
         exc |-> "none", val |-> solutions]

\* OpenES.tell from the bookkeeping of the best member on, for the reward
\* array after rank shaping and weight decay, its descending argsort idx
\* and the result os of optimizer.compute_step(gradient)
OpenES_tell_assign(s, reward, idx, os) ==
    LET best_reward == reward[idx[1]]
        best_mu == s.solutions[idx[1]]
        keep == /\ ~s.first_interation
                /\ ~(s.forget_best \/ RGt(best_reward, s.best_reward))
    IN  [self |->
            [s EXCEPT
               !.curr_best_reward = best_reward,
               !.curr_best_mu = best_mu,
               !.first_interation = FALSE,
               !.best_reward = IF keep THEN @ ELSE best_reward,
               !.best_mu = IF keep THEN @ ELSE best_mu,
               !.mu = VSub(@, os.step),
               !.optimizer = os.opt,
               !.sigma = IF RGt(@, s.sigma_limit)
                         THEN RMul(@, s.sigma_decay) ELSE @,
               !.learning_rate = IF RGt(@, s.learning_rate_limit)
                                 THEN RMul(@, s.learning_rate_decay) ELSE @],
         exc |-> "none"]

\* the gradient estimate of OpenES.tell
OpenES_gradient(s, reward) ==
    VScale(RDiv(One, RMul(RInt(s.popsize), s.sigma)),
           DotRows(compute_centered_ranks(reward), s.epsilon, s.num_params))

\* OpenES.tell from the argsort on
OpenES_tell_reward(s, reward) ==
    OpenES_tell_assign(s, reward, ArgsortDesc(reward),
                       compute_step(s.optimizer, OpenES_gradient(s, reward)))

\* OpenES.tell after its assertion: the object after the call and the
\* exception raised, if any
OpenES_tell_body(s, reward_table_result) ==
    IF s.solutions = Unset
    THEN [self |-> s, exc |-> "AttributeError"]
    ELSE
    LET ranked == IF s.rank_fitness
                  THEN compute_centered_ranks(reward_table_result)
                  ELSE reward_table_result
    IN  OpenES_tell_reward(s,
            IF RGt(s.weight_decay, Zero)
            THEN add_in_place(s.rank_fitness, ranked,
                     compute_weight_decay(s.weight_decay, s.solutions))
            ELSE ranked)

\* Fault variant of OpenES.tell: sigma is annealed before the number of
\* scores is checked, so a rejected call leaves a trace in the object.
OpenES_tell_assert_late(s, reward_table_result) ==
    IF Len(reward_table_result) # s.popsize
    THEN [self |-> [s EXCEPT !.sigma = RMul(@, s.sigma_decay)],
          exc |-> "AssertionError"]
    ELSE OpenES_tell_body(s, reward_table_result)

\* OpenES.tell: the assertion on the number of scores comes first
OpenES_tell(s, reward_table_result) ==
    IF Len(reward_table_result) # s.popsize
    THEN [self |-> s, exc |-> "AssertionError"]
    ELSE OpenES_tell_body(s, reward_table_result)

\* OpenES.best_param
\* OpenES.set_mu(mu)
OpenES_set_mu(s, mu) == [s EXCEPT !.mu = mu]

OpenES_best_param(s) == [exc |-> "none", val |-> s.best_mu]

\* OpenES.result; curr_best_reward exists only after the first tell()
OpenES_result(s) ==
    IF s.curr_best_reward = UnsetR
    THEN [exc |-> "AttributeError", val |-> Unset]
    ELSE [exc |-> "none",
          val |-> <<s.best_mu, s.best_reward, s.curr_best_reward, s.sigma>>]

(***************************************************************************)
(* class SimpleGA                                                          *)
(***************************************************************************)
\* SimpleGA.__init__.  The instance attribute best_param is assigned here,
\* under the name of the method best_param.
SimpleGA_init(c) ==
    LET elite_popsize == RFloor(RMul(RInt(c.popsize), c.elite_ratio))
    IN  [class |-> "SimpleGA",
         num_params |-> c.num_params,
         sigma_init |-> c.sigma_init,
         sigma_decay |-> c.sigma_decay,
         sigma_limit |-> c.sigma_limit,
         popsize |-> c.popsize,
         elite_ratio |-> c.elite_ratio,
         elite_popsize |-> elite_popsize,
         sigma |-> c.sigma_init,
         elite_params |-> Vec([i \in 1..elite_popsize |-> Zeros(c.num_params)]),
         elite_rewards |-> Zeros(elite_popsize),
         best_param |-> Zeros(c.num_params),
         best_reward |-> Zero,
         first_iteration |-> TRUE,
         forget_best |-> c.forget_best,
         weight_decay |-> c.weight_decay,
         epsilon |-> Unset,
         solutions |-> Unset,
         curr_best_reward |-> UnsetR]

\* mate(a, b) of SimpleGA.ask: gene j comes from b where the uniform draw
\* exceeds 0.5 (pick[j]), from a elsewhere
mate(a, b, pick) == Vec([j \in 1..Len(a) |-> IF pick[j] THEN b[j] ELSE a[j]])

\* the children the loop of SimpleGA.ask can breed: mate() of two elites
\* drawn by np.random.choice(elite_range), for every crossover draw
SimpleGA_children(s) ==
    {mate(s.elite_params[idx_a], s.elite_params[idx_b], pick) :
        idx_a \in 1..s.elite_popsize, idx_b \in 1..s.elite_popsize,
        pick \in [1..s.num_params -> BOOLEAN]}

\* the children SimpleGA.ask breeds for its popsize members; with no elite
\* (int(popsize * elite_ratio) is 0) the first np.random.choice raises and
\* no child is bred
SimpleGA_child_params(s) ==
    IF s.elite_popsize = 0 THEN {<<>>}
    ELSE [1..s.popsize -> SimpleGA_children(s)]

\* SimpleGA.ask for the normal draw z and the child bred for each member;
\* with no elite np.random.choice raises ValueError, the noise being stored
SimpleGA_ask(s, z, child_params) ==
    LET epsilon == Vec([i \in 1..s.popsize |-> VScale(s.sigma, z[i])])
    IN  IF s.elite_popsize = 0
        THEN [self |-> [s EXCEPT !.epsilon = epsilon],
              exc |-> "ValueError", val |-> Unset]
        ELSE
        LET solutions == Vec([i \in 1..s.popsize |->
                            VAdd(child_params[i], epsilon[i])])
        IN  [self |-> [s EXCEPT !.epsilon = epsilon,
                                !.solutions = solutions],
             exc |-> "none", val |-> solutions]

\* SimpleGA.tell from the selection of the elite on, for the pooled reward
\* and solution arrays and the indices idx of the elite in them
SimpleGA_tell_assign(s, reward, solution, idx) ==
    LET elite_rewards == Vec([k \in 1..Len(idx) |-> reward[idx[k]]])
        elite_params == Vec([k \in 1..Len(idx) |-> solution[idx[k]]])
        s1 == [s EXCEPT !.elite_rewards = elite_rewards,
                        !.elite_params = elite_params]
    IN  IF Len(idx) = 0
        THEN [self |-> s1, exc |-> "IndexError"]
        ELSE
        LET curr_best_reward == elite_rewards[1]
            better == s.first_iteration
                      \/ RGt(curr_best_reward, s.best_reward)
        IN  [self |->
                [s1 EXCEPT
                   !.curr_best_reward = curr_best_reward,
                   !.first_iteration = IF better THEN FALSE ELSE @,
                   !.best_reward = IF better THEN elite_rewards[1] ELSE @,
                   !.best_param = IF better THEN elite_params[1] ELSE @,
                   !.sigma = IF RGt(@, s.sigma_limit)
                             THEN RMul(@, s.sigma_decay) ELSE @],
             exc |-> "none"]

\* Fault variant of SimpleGA.tell: the previous elite is never pooled with
\* the population, as if forget_best were set.
SimpleGA_tell_pool_forgetful(s, reward_table) ==
    SimpleGA_tell_assign(s, reward_table, s.solutions,
        Slice(ArgsortDesc(reward_table), 0, s.elite_popsize))

\* SimpleGA.tell from the pooling with the previous elite on, for the
\* reward table after weight decay
SimpleGA_tell_pool(s, reward_table) ==
    LET pool == s.forget_best \/ s.first_iteration
        reward == IF pool THEN reward_table
                  ELSE reward_table \o s.elite_rewards
        solution == IF pool THEN s.solutions
                    ELSE s.solutions \o s.elite_params
    IN  SimpleGA_tell_assign(s, reward, solution,
            Slice(ArgsortDesc(reward), 0, s.elite_popsize))

\* SimpleGA.tell after its assertion
SimpleGA_tell_body(s, reward_table_result) ==
    IF s.solutions = Unset
    THEN [self |-> s, exc |-> "AttributeError"]
    ELSE SimpleGA_tell_pool(s,
            IF RGt(s.weight_decay, Zero)
            THEN VAdd(reward_table_result,
                      compute_weight_decay(s.weight_decay, s.solutions))
            ELSE reward_table_result)

\* SimpleGA.tell: the assertion on the number of scores comes first
SimpleGA_tell(s, reward_table_result) ==
    IF Len(reward_table_result) # s.popsize
    THEN [self |-> s, exc |-> "AssertionError"]
    ELSE SimpleGA_tell_body(s, reward_table_result)

\* SimpleGA.set_mu(mu) does nothing
SimpleGA_set_mu(s, mu) == s

\* SimpleGA.result; curr_best_reward exists only after the first tell()
SimpleGA_result(s) ==
    IF s.curr_best_reward = UnsetR
    THEN [exc |-> "AttributeError", val |-> Unset]
    ELSE [exc |-> "none",
          val |-> <<s.best_param, s.best_reward, s.curr_best_reward,
                    s.sigma>>]

(***************************************************************************)
(* class PEPG                                                              *)
(*                                                                         *)
(* best_mu and curr_best_mu can be bound to the very array that self.mu    *)
(* names (tell, average_baseline = False); best_mu_is_mu and               *)
(* curr_best_mu_is_mu record that, since an in-place update of self.mu     *)
(* then shows through them.                                                *)
(***************************************************************************)
\* PEPG.__init__; the parity assertions on popsize hold for every
\* configuration of the model
PEPG_init(c) ==
    LET batch_size == IF c.average_baseline THEN c.popsize \div 2
                      ELSE (c.popsize - 1) \div 2
        elite_popsize == RFloor(RMul(RInt(c.popsize), c.elite_ratio))
    IN  [class |-> "PEPG",
         num_params |-> c.num_params,
         sigma_init |-> c.sigma_init,
         sigma_alpha |-> c.sigma_alpha,
         sigma_decay |-> c.sigma_decay,
         sigma_limit |-> c.sigma_limit,
         sigma_max_change |-> c.sigma_max_change,
         learning_rate |-> c.learning_rate,
         learning_rate_decay |-> c.learning_rate_decay,
         learning_rate_limit |-> c.learning_rate_limit,
         popsize |-> c.popsize,
         average_baseline |-> c.average_baseline,
         batch_size |-> batch_size,
         elite_ratio |-> c.elite_ratio,
         elite_popsize |-> elite_popsize,
         use_elite |-> (elite_popsize > 0),
         forget_best |-> (c.forget_best \/ c.rank_fitness),
         mu |-> Zeros(c.num_params),
         sigma |-> Vec([j \in 1..c.num_params |-> c.sigma_init]),
         curr_best_mu |-> Zeros(c.num_params),
         curr_best_mu_is_mu |-> FALSE,
         best_mu |-> Zeros(c.num_params),
         best_mu_is_mu |-> FALSE,
         best_reward |-> Zero,
         first_interation |-> TRUE,
         weight_decay |-> c.weight_decay,
         rank_fitness |-> c.rank_fitness,
         optimizer |-> Adam_init(c.num_params, c.learning_rate),
         epsilon |-> Unset,
         epsilon_full |-> Unset,
         solutions |-> Unset,
         curr_best_reward |-> UnsetR]

\* Fault variant of PEPG.ask: the unperturbed mean is never prepended.
PEPG_ask_no_baseline(s, z) ==
    LET epsilon == Vec([i \in 1..s.batch_size |-> VMul(z[i], s.sigma)])
        epsilon_full == epsilon \o MNeg(epsilon)
        solutions == Vec([i \in 1..Len(epsilon_full) |->
                        VAdd(s.mu, epsilon_full[i])])
    IN  [self |-> [s EXCEPT !.epsilon = epsilon,
                            !.epsilon_full = epsilon_full,
                            !.solutions = solutions],
         exc |-> "none", val |-> solutions]

\* Fault variant of PEPG.ask: the second half of the noise repeats the first
\* half instead of mirroring it.
PEPG_ask_unmirrored(s, z) ==
    LET epsilon == Vec([i \in 1..s.batch_size |-> VMul(z[i], s.sigma)])
        epsilon_full == epsilon \o epsilon
        eps == IF s.average_baseline THEN epsilon_full
               ELSE <<Zeros(s.num_params)>> \o epsilon_full
        solutions == Vec([i \in 1..Len(eps) |-> VAdd(s.mu, eps[i])])
    IN  [self |-> [s EXCEPT !.epsilon = epsilon,
                            !.epsilon_full = epsilon_full,
                            !.solutions = solutions],
         exc |-> "none", val |-> solutions]

\* PEPG.ask for the standard-normal draw z (batch_size rows)
PEPG_ask(s, z) ==
    LET epsilon == Vec([i \in 1..s.batch_size |-> VMul(z[i], s.sigma)])
        epsilon_full == epsilon \o MNeg(epsilon)
        eps == IF s.average_baseline THEN epsilon_full
               ELSE <<Zeros(s.num_params)>> \o epsilon_full
        solutions == Vec([i \in 1..Len(eps) |-> VAdd(s.mu, eps[i])])
    IN  [self |-> [s EXCEPT !.epsilon = epsilon,
                            !.epsilon_full = epsilon_full,
                            !.solutions = solutions],
         exc |-> "none", val |-> solutions]

\* one entry of rS = reward_avg - b in PEPG.tell, where reward_avg is
\* (reward[:batch_size] + reward[batch_size:]) / 2.0
PEPG_rS(rank_fitness, r, mirrored, b) ==
    reward_dtype(rank_fitness,
        RSub(reward_dtype(rank_fitness,
                 RDiv(reward_dtype(rank_fitness, RAdd(r, mirrored)),
                      RInt(2))),
             b))

\* Fault variant of the adaptive change of sigma in PEPG.tell: the change
\* sigma_alpha * delta_sigma is added without the clamp.
PEPG_change_sigma_unclamped(s, sigma, reward, b) ==
    LET n == s.num_params
        S == Vec([i \in 1..s.batch_size |->
                Vec([j \in 1..n |->
                   RDiv(RSub(RMul(s.epsilon[i][j], s.epsilon[i][j]),
                             RMul(sigma[j], sigma[j])),
                        sigma[j])])])
        rS == Vec([i \in 1..s.batch_size |->
                 PEPG_rS(s.rank_fitness, reward[i],
                         reward[s.batch_size + i], b)])
    IN  VScale(s.sigma_alpha, DotRows(rS, S, n))

\* the adaptive change of a sigma_j that is 0, for sigma_alpha > 0: entry
\* (i, j) of S is (epsilon^2 - 0) / 0, which numpy makes inf where the
\* noise is not 0 and NaN where it is (a warning, no exception).  The dot
\* product with rS is NaN when a term is NaN (rS_i is 0 or NaN, or S is
\* NaN) or when the terms are infinite with both signs, and inf or -inf
\* otherwise, which the clamp to +-sigma_max_change * 0 turns into 0.
PEPG_change_sigma_at_zero(s, rS, j) ==
    IF \/ \E i \in 1..s.batch_size :
             \/ IsNaN(rS[i]) \/ rS[i][1] = 0
             \/ IsNaN(s.epsilon[i][j]) \/ s.epsilon[i][j][1] = 0
       \/ \E i, k \in 1..s.batch_size : rS[i][1] > 0 /\ rS[k][1] < 0
    THEN NaN
    ELSE Zero

\* the adaptive change of sigma in PEPG.tell: sigma_alpha * delta_sigma,
\* clamped to +-sigma_max_change * sigma by np.minimum and np.maximum
PEPG_change_sigma(s, sigma, reward, b) ==
    LET n == s.num_params
        S == Vec([i \in 1..s.batch_size |->
                Vec([j \in 1..n |->
                   RDiv(RSub(RMul(s.epsilon[i][j], s.epsilon[i][j]),
                             RMul(sigma[j], sigma[j])),
                        sigma[j])])])
        rS == Vec([i \in 1..s.batch_size |->
                 PEPG_rS(s.rank_fitness, reward[i],
                         reward[s.batch_size + i], b)])
        delta_sigma == DotRows(rS, S, n)
    IN  Vec([j \in 1..n |->
           IF sigma[j] = Zero
           THEN PEPG_change_sigma_at_zero(s, rS, j)
           ELSE np_maximum(np_minimum(RMul(s.sigma_alpha, delta_sigma[j]),
                                      RMul(s.sigma_max_change, sigma[j])),
                           RNeg(RMul(s.sigma_max_change, sigma[j])))])

\* self.sigma[self.sigma > self.sigma_limit] *= self.sigma_decay
PEPG_decay_sigma(s, sigma) ==
    IF RLt(s.sigma_decay, One)
    THEN Vec([j \in 1..Len(sigma) |->
            IF RGt(sigma[j], s.sigma_limit)
            THEN RMul(sigma[j], s.sigma_decay) ELSE sigma[j]])
    ELSE sigma

\* "update the mean" of PEPG.tell: the optimizer and the mean after it
PEPG_update_mean(s, reward, idx) ==
    IF s.use_elite
    THEN [opt |-> s.optimizer,
          mu |-> VAdd(s.mu, MeanRows(s.epsilon_full, idx, s.num_params))]
    ELSE
    LET rT == Vec([i \in 1..s.batch_size |->
                 reward_dtype(s.rank_fitness,
                     RSub(reward[i], reward[s.batch_size + i]))])
        change_mu == VScale(Half, DotRows(rT, s.epsilon, s.num_params))
    IN  Optimizer_update([s.optimizer EXCEPT !.stepsize = s.learning_rate],
                         s.mu, VNeg(change_mu))

\* the assignments that end PEPG.tell: s1 is the object after the
\* bookkeeping of the best member, up the optimizer and the mean after the
\* update of the mean, sigma2 the deviations after the adaptive change
PEPG_tell_assign(s, s1, up, sigma2) ==
    [self |->
        [s1 EXCEPT
           !.mu = up.mu,
           !.optimizer = up.opt,
           !.curr_best_mu =
               IF s1.curr_best_mu_is_mu /\ s.use_elite THEN up.mu ELSE @,
           !.best_mu =
               IF s1.best_mu_is_mu /\ s.use_elite THEN up.mu ELSE @,
           !.curr_best_mu_is_mu = @ /\ s.use_elite,
           !.best_mu_is_mu = @ /\ s.use_elite,
           !.sigma = PEPG_decay_sigma(s, sigma2),
           !.learning_rate =
               IF /\ RLt(s.learning_rate_decay, One)
                  /\ RGt(@, s.learning_rate_limit)
               THEN RMul(@, s.learning_rate_decay) ELSE @],
     exc |-> "none"]

\* PEPG.tell from the "short hand" reads of epsilon and sigma on
PEPG_tell_update(s, s1, b, reward, idx) ==
    IF s.epsilon = Unset
    THEN [self |-> s1, exc |-> "AttributeError"]
    ELSE PEPG_tell_assign(s, s1, PEPG_update_mean(s, reward, idx),
            IF RGt(s.sigma_alpha, Zero)
            THEN VAdd(s1.sigma, PEPG_change_sigma(s, s1.sigma, reward, b))
            ELSE s1.sigma)

\* PEPG.tell from the bookkeeping of the best member on, for the baseline
\* b, the rewards of the perturbed members and the indices idx
PEPG_tell_best(s, b, reward, idx) ==
    LET from_eps == RGt(reward[idx[1]], b) \/ s.average_baseline
    IN  IF from_eps /\ s.epsilon_full = Unset
        THEN [self |-> s, exc |-> "AttributeError"]
        ELSE
        LET best_reward == IF from_eps THEN reward[idx[1]] ELSE b
            best_mu == IF from_eps THEN VAdd(s.mu, s.epsilon_full[idx[1]])
                       ELSE s.mu
            keep == /\ ~s.first_interation
                    /\ ~(s.forget_best \/ RGt(best_reward, s.best_reward))
        IN  PEPG_tell_update(s,
                [s EXCEPT
                   !.curr_best_reward = best_reward,
                   !.curr_best_mu = best_mu,
                   !.curr_best_mu_is_mu = ~from_eps,
                   !.sigma = IF s.first_interation
                             THEN Vec([j \in 1..s.num_params |->
                                         s.sigma_init])
                             ELSE @,
                   !.first_interation = FALSE,
                   !.best_reward = IF keep THEN @ ELSE best_reward,
                   !.best_mu = IF keep THEN @ ELSE best_mu,
                   !.best_mu_is_mu = IF keep THEN @ ELSE ~from_eps],
                b, reward, idx)

\* PEPG.tell from the argsort on
PEPG_tell_elite(s, b, reward) ==
    PEPG_tell_best(s, b, reward,
        IF s.use_elite
        THEN Slice(ArgsortDesc(reward), 0, s.elite_popsize)
        ELSE ArgsortDesc(reward))

\* np.mean(reward_table): a float32 table is added up from the left and
\* divided in float32
reward_mean(rank_fitness, reward_table) ==
    IF rank_fitness
    THEN F32(RDiv(F32Sum(reward_table, Len(reward_table)),
                  RInt(Len(reward_table))))
    ELSE RMean(reward_table)

\* PEPG.tell from the choice of the baseline on, for the reward table after
\* rank shaping and weight decay
PEPG_tell_baseline(s, reward_table) ==
    LET reward_offset == IF s.average_baseline THEN 0 ELSE 1
    IN  PEPG_tell_elite(s,
            IF s.average_baseline
            THEN reward_mean(s.rank_fitness, reward_table)
            ELSE reward_table[1],
            Slice(reward_table, reward_offset, Len(reward_table)))

\* PEPG.tell after its assertion
PEPG_tell_body(s, reward_table_result) ==
    IF s.solutions = Unset /\ RGt(s.weight_decay, Zero)
    THEN [self |-> s, exc |-> "AttributeError"]
    ELSE
    LET ranked == IF s.rank_fitness
                  THEN compute_centered_ranks(reward_table_result)
                  ELSE reward_table_result
    IN  PEPG_tell_baseline(s,
            IF RGt(s.weight_decay, Zero)
            THEN add_in_place(s.rank_fitness, ranked,
                     compute_weight_decay(s.weight_decay, s.solutions))
            ELSE ranked)

\* PEPG.tell: the assertion on the number of scores comes first
PEPG_tell(s, reward_table_result) ==
    IF Len(reward_table_result) # s.popsize
    THEN [self |-> s, exc |-> "AssertionError"]
    ELSE PEPG_tell_body(s, reward_table_result)

\* PEPG.best_param
\* PEPG.set_mu(mu) binds self.mu to a new array: an attribute that named
\* the old array keeps it and no longer follows self.mu
PEPG_set_mu(s, mu) ==
    [s EXCEPT !.mu = mu, !.best_mu_is_mu = FALSE,
              !.curr_best_mu_is_mu = FALSE]

PEPG_best_param(s) == [exc |-> "none", val |-> s.best_mu]

\* PEPG.result; curr_best_reward exists only after the first tell()
PEPG_result(s) ==
    IF s.curr_best_reward = UnsetR
    THEN [exc |-> "AttributeError", val |-> Unset]
    ELSE [exc |-> "none",
          val |-> <<s.best_mu, s.best_reward, s.curr_best_reward, s.sigma>>]

(***************************************************************************)
(* The novelty-search family: NSAbstract and NSES, NSRES, NSRAES.          *)
(*                                                                         *)
(* Rows of the metapopulation and entries of the archive are numbered from *)
(* 1 here and from 0 in the source.  self.best can be a view of a row of   *)
(* self.population (init); best_row is that row, 0 when best is an array   *)
(* of its own, and a write to the row shows through the view.              *)
(* self.current_solution is a view of row current_index of the array that  *)
(* self.population named at the ask(): current_solution_is_row says that   *)
(* self.population still names that array, so that the write of tell() to  *)
(* the row shows through the view; init() binds self.population to a new   *)
(* array and leaves the view on the old one.                               *)
(***************************************************************************)
\* NSAbstract.__init__, reached through the constructor of each subclass;
\* NSRAES.__init__ adds the three fields of the adaptive weight
NSAbstract_init(c) ==
    LET base ==
          [class |-> c.class,
           optimizers |-> Vec([m \in 1..c.metapopulation_size |->
                                 create_optimizer(c.optimizer, c.num_params)]),
           num_params |-> c.num_params,
           sigma |-> c.sigma,
           k |-> c.k,
           popsize |-> c.popsize,
           metapopulation_size |-> c.metapopulation_size,
           antithetic |-> c.antithetic,
           half_popsize |-> IF c.antithetic THEN c.popsize \div 2 ELSE 0,
           best_reward |-> Zero,
           best |-> Unset,
           best_row |-> 0,
           weight |-> c.weight,
           initialised |-> FALSE,
           characteristics |-> Unset,
           population |-> Unset,
           characteristics_indices |-> Unset,
           epsilon |-> Unset,
           current_index |-> 0,
           current_solution |-> Unset,
           current_solution_is_row |-> FALSE,
           current_solutions |-> Unset,
           mu |-> Unset]
    IN  IF c.class = "NSRAES"
        THEN [f \in DOMAIN base \cup {"weight_change", "best_time",
                                      "weight_change_threshold"} |->
                CASE f = "weight_change" -> c.weight_change
                  [] f = "best_time" -> 0
                  [] f = "weight_change_threshold" -> c.weight_change_threshold
                  [] OTHER -> base[f]]
        ELSE base

\* NSES.__init__: the weight handed to NSAbstract is 0
NSES_init(c) == NSAbstract_init([c EXCEPT !.weight = Zero])

\* NSRES.__init__: the weight is the constructor argument
NSRES_init(c) == NSAbstract_init(c)

\* NSRAES.__init__: the weight starts at init_weight
NSRAES_init(c) == NSAbstract_init(c)

\* np.argmax: the first position of the largest entry
Argmax(x) ==
    CHOOSE i \in 1..Len(x) :
        /\ \A j \in 1..Len(x) : RLe(x[j], x[i])
        /\ \A j \in 1..(i - 1) : RLt(x[j], x[i])

\* NSAbstract.init for the drawn metapopulation pop and the fitness and
\* characteristics the evaluator returns for it
NSAbstract_init_population(s, pop, fitness, characteristics) ==
    LET best_fitness_index == Argmax(fitness)
    IN  [self |-> [s EXCEPT
                     !.initialised = TRUE,
                     !.characteristics = characteristics,
                     !.population = pop,
                     !.current_solution_is_row = FALSE,
                     !.best_reward = fitness[best_fitness_index],
                     !.best = pop[best_fitness_index],
                     !.best_row = best_fitness_index,
                     !.characteristics_indices =
                         Vec([m \in 1..s.metapopulation_size |-> m])],
         exc |-> "none"]

\* NSAbstract.get_gradient: the weight multiplies the novelties and the
\* normalized reward enters with weight one.  Both arrays come from
\* compute_centered_ranks, so the weights are a float32 array; the product
\* with the float64 noise is float64.
get_gradient(s, novelties, normalized_reward) ==
    LET weights == VF32(VAdd(VF32(VScale(s.weight, novelties)),
                             normalized_reward))
        scale == RMul(s.sigma, RInt(s.popsize))
        unscaled_update == DotRows(weights, s.epsilon, s.num_params)
    IN  VScale(RDiv(One, scale), unscaled_update)

\* the noise rows NSAbstract.ask draws
NS_noise_rows(s) == IF s.antithetic THEN s.half_popsize ELSE s.popsize

\* NSAbstract.ask for the standard-normal draw z.  The noise is stored
\* first.  The novelty of every metapopulation member is computed next:
\* calculate_novelty as written raises on every archive (it takes the truth
\* value of an array comparison, hands 1-d rows to cdist, and an archive of
\* equal one-entry rows gives all-zero novelties, whose normalisation is
\* NaN and is refused by np.random.choice), which is pick = 0.  pick = m > 0
\* is np.random.choice returning member m, as it can once calculate_novelty
\* is overridden to return positive novelties.
NSAbstract_ask(s, z, pick) ==
    LET noise   == Vec([i \in 1..Len(z) |-> VScale(s.sigma, z[i])])
        epsilon == IF s.antithetic THEN noise \o MNeg(noise) ELSE noise
        s1      == [s EXCEPT !.epsilon = epsilon]
    IN  IF ~s.initialised
        THEN [self |-> s1, exc |-> "AttributeError", val |-> Unset]
        ELSE IF pick = 0
        THEN [self |-> s1, exc |-> "ValueError", val |-> Unset]
        ELSE
        LET current_solutions ==
                Vec([i \in 1..Len(epsilon) |->
                       VAdd(s.population[pick], epsilon[i])])
        IN  [self |-> [s1 EXCEPT !.current_index = pick,
                                 !.current_solution = s.population[pick],
                                 !.current_solution_is_row = TRUE,
                                 !.current_solutions = current_solutions],
             exc |-> "none", val |-> current_solutions]

\* NSAbstract.update_bests
NSAbstract_update_bests(s, fitness, new_sol) ==
    IF RGt(fitness, s.best_reward)
    THEN [s EXCEPT !.best_reward = fitness, !.best = new_sol,
                   !.best_row = 0]
    ELSE s

\* NSRAES.update_bests
NSRAES_update_bests(s, fitness, new_sol) ==
    LET s1 == IF RGt(fitness, s.best_reward)
              THEN [s EXCEPT
                      !.best_reward = fitness,
                      !.best = new_sol,
                      !.best_row = 0,
                      !.best_time = 0,
                      !.weight = RMin(One, RAdd(@, s.weight_change))]
              ELSE [s EXCEPT !.best_time = @ + 1]
    IN  IF s1.best_time >= s.weight_change_threshold
        THEN [s1 EXCEPT
                !.weight = RMin(Zero, RSub(@, s.weight_change)),
                !.best_time = 0]
        ELSE s1

update_bests(s, fitness, new_sol) ==
    IF s.class = "NSRAES" THEN NSRAES_update_bests(s, fitness, new_sol)
    ELSE NSAbstract_update_bests(s, fitness, new_sol)

\* the new solution of NSAbstract.tell, for the result os of compute_step
\* on the optimizer of the selected member: the step is added to
\* self.current_solution
NS_apply_step(s, os) ==
    [opt |-> os.opt,
     new_sol |-> VAdd(s.current_solution, os.step)]

\* the solution NSAbstract.tell computes for the selected member, with the
\* optimizer of that member after its step
NS_new_sol(s, reward_table_result, novelties) ==
    NS_apply_step(s,
        compute_step(s.optimizers[s.current_index],
            VNeg(get_gradient(s, compute_centered_ranks(novelties),
                              compute_centered_ranks(reward_table_result)))))

\* Fault variant of NSAbstract.tell: the step is computed on the optimizer
\* of the selected member and stored as the optimizer of the first member.
NSAbstract_tell_begin_first_optimizer(s, reward_table_result, novelties) ==
    IF Len(reward_table_result) # s.popsize
    THEN [self |-> s, exc |-> "AssertionError", new_sol |-> Unset]
    ELSE IF s.epsilon = Unset \/ s.current_solution = Unset
    THEN [self |-> s, exc |-> "AttributeError", new_sol |-> Unset]
    ELSE \* the optimizer and the solution after the step
         LET ns == NS_new_sol(s, reward_table_result, novelties)
         IN  [self |-> [s EXCEPT !.optimizers[1] = ns.opt],
              exc |-> "none", new_sol |-> ns.new_sol]

\* NSAbstract.tell up to its call of the evaluator: the assertion, the
\* gradient and the step of the selected member's optimizer, which keeps
\* its new state whatever the evaluator does.  new_sol is the solution
\* handed to the evaluator.
NSAbstract_tell_begin(s, reward_table_result, novelties) ==
    IF Len(reward_table_result) # s.popsize
    THEN [self |-> s, exc |-> "AssertionError", new_sol |-> Unset]
    ELSE IF s.epsilon = Unset \/ s.current_solution = Unset
    THEN [self |-> s, exc |-> "AttributeError", new_sol |-> Unset]
    ELSE \* the optimizer and the solution after the step
         LET ns == NS_new_sol(s, reward_table_result, novelties)
         IN  [self |-> [s EXCEPT !.optimizers[s.current_index] = ns.opt],
              exc |-> "none", new_sol |-> ns.new_sol]

\* Fault variant of NSAbstract.tell: the characteristic of the new solution
\* replaces the archive entry of the selected member instead of being
\* appended.
NSAbstract_tell_assign_in_place(s, new_sol, fitness, characteristic) ==
    LET old == s.characteristics_indices[s.current_index]
    IN  [self |->
            update_bests(
                [s EXCEPT
                   !.characteristics[old] = characteristic,
                   !.population[s.current_index] = new_sol,
                   !.current_solution =
                       IF s.current_solution_is_row THEN new_sol ELSE @,
                   !.best = IF s.best_row = s.current_index
                            THEN new_sol ELSE @],
                fitness, new_sol),
         exc |-> "none"]

\* NSAbstract.tell from the return of the evaluator on: fitness and
\* characteristic are what it returned for new_sol
NSAbstract_tell_assign(s, new_sol, fitness, characteristic) ==
    LET characteristics == Append(s.characteristics, characteristic)
    IN  [self |->
            update_bests(
                [s EXCEPT
                   !.characteristics = characteristics,
                   !.population[s.current_index] = new_sol,
                   !.current_solution =
                       IF s.current_solution_is_row THEN new_sol ELSE @,
                   !.characteristics_indices[s.current_index] =
                       Len(characteristics),
                   !.best = IF s.best_row = s.current_index
                            THEN new_sol ELSE @],
                fitness, new_sol),
         exc |-> "none"]

\* the rest of NSAbstract.tell for the result b of NSAbstract_tell_begin
NSAbstract_tell_end(b, fitness, characteristic) ==
    IF b.exc # "none" THEN [self |-> b.self, exc |-> b.exc]
    ELSE NSAbstract_tell_assign(b.self, b.new_sol, fitness, characteristic)

\* NSAbstract.set_mu(mu): the attribute is stored and read by no method
NSAbstract_set_mu(s, mu) == [s EXCEPT !.mu = mu]

\* NSAbstract.best_param
NSAbstract_best_param(s) == [exc |-> "none", val |-> s.best]

\* NSAbstract.result
NSAbstract_result(s) ==
    [exc |-> "none",
     val |-> <<s.best, s.best_reward, s.best_reward, s.sigma>>]

(***************************************************************************)
(* Calls on a strategy object, dispatched on its class.                    *)
(***************************************************************************)
tell(s, scores) ==
    CASE s.class = "OpenES"   -> OpenES_tell(s, scores)
      [] s.class = "PEPG"     -> PEPG_tell(s, scores)
      [] s.class = "SimpleGA" -> SimpleGA_tell(s, scores)

set_mu(s, mu) ==
    CASE s.class = "OpenES"   -> OpenES_set_mu(s, mu)
      [] s.class = "PEPG"     -> PEPG_set_mu(s, mu)
      [] s.class = "SimpleGA" -> SimpleGA_set_mu(s, mu)
      [] OTHER                -> NSAbstract_set_mu(s, mu)

\* strategy.best_param(): an instance attribute named best_param hides the
\* method, and calling the array it holds raises TypeError
best_param(s) ==
    IF "best_param" \in DOMAIN s
    THEN [exc |-> "TypeError", val |-> Unset]
    ELSE CASE s.class = "OpenES" -> OpenES_best_param(s)
           [] s.class = "PEPG"   -> PEPG_best_param(s)
           [] OTHER              -> NSAbstract_best_param(s)

result(s) ==
    CASE s.class = "OpenES"   -> OpenES_result(s)
      [] s.class = "PEPG"     -> PEPG_result(s)
      [] s.class = "SimpleGA" -> SimpleGA_result(s)
      [] OTHER                -> NSAbstract_result(s)

(***************************************************************************)
(* The configurations explored: constructor arguments of each class.       *)
(***************************************************************************)
Q(n, d) == R(n, d)

OpenESConfigs ==
    { [num_params |-> 1, popsize |-> 2, antithetic |-> TRUE,
       optimizer |-> [name |-> "sgd", stepsize |-> Q(1, 2)],
       sigma_init |-> One, sigma_decay |-> Q(1, 2), sigma_limit |-> Q(3, 4),
       learning_rate |-> One, learning_rate_decay |-> Q(1, 2),
       learning_rate_limit |-> Q(1, 2),
       weight_decay |-> Zero, rank_fitness |-> TRUE, forget_best |-> TRUE],
      [num_params |-> 1, popsize |-> 3, antithetic |-> FALSE,
       optimizer |-> [name |-> "sgdm", stepsize |-> Q(1, 2),
                      momentum |-> Q(1, 2)],
       sigma_init |-> One, sigma_decay |-> Q(1, 2), sigma_limit |-> Q(1, 2),
       learning_rate |-> One, learning_rate_decay |-> One,
       learning_rate_limit |-> Q(1, 2),
       weight_decay |-> Q(1, 4), rank_fitness |-> FALSE,
       forget_best |-> FALSE],
      [num_params |-> 2, popsize |-> 4, antithetic |-> TRUE,
       optimizer |-> [name |-> "adam", stepsize |-> One],
       sigma_init |-> Q(1, 2), sigma_decay |-> One, sigma_limit |-> Q(1, 4),
       learning_rate |-> One, learning_rate_decay |-> One,
       learning_rate_limit |-> One,
       weight_decay |-> Zero, rank_fitness |-> TRUE, forget_best |-> TRUE],
      [num_params |-> 1, popsize |-> 4, antithetic |-> TRUE,
       optimizer |-> [name |-> "sgd", stepsize |-> Q(1, 4)],
       sigma_init |-> One, sigma_decay |-> Q(1, 2), sigma_limit |-> Q(1, 4),
       learning_rate |-> One, learning_rate_decay |-> One,
       learning_rate_limit |-> One,
       weight_decay |-> Q(1, 4), rank_fitness |-> TRUE,
       forget_best |-> TRUE],
      [num_params |-> 1, popsize |-> 1, antithetic |-> FALSE,
       optimizer |-> [name |-> "sgdm", stepsize |-> Q(1, 2),
                      momentum |-> Q(1, 2)],
       sigma_init |-> One, sigma_decay |-> One, sigma_limit |-> Q(1, 2),
       learning_rate |-> One, learning_rate_decay |-> One,
       learning_rate_limit |-> One,
       weight_decay |-> Zero, rank_fitness |-> FALSE,
       forget_best |-> FALSE] }

PEPGConfigs ==
    { [num_params |-> 1, popsize |-> 2, average_baseline |-> TRUE,
       elite_ratio |-> Zero,
       sigma_init |-> One, sigma_alpha |-> Q(1, 2), sigma_decay |-> Q(1, 2),
       sigma_limit |-> Q(3, 4), sigma_max_change |-> Q(1, 4),
       learning_rate |-> One, learning_rate_decay |-> Q(1, 2),
       learning_rate_limit |-> Q(1, 2),
       weight_decay |-> Zero, rank_fitness |-> TRUE, forget_best |-> TRUE],
      [num_params |-> 1, popsize |-> 3, average_baseline |-> FALSE,
       elite_ratio |-> Q(1, 2),
       sigma_init |-> One, sigma_alpha |-> Q(1, 2), sigma_decay |-> One,
       sigma_limit |-> Q(1, 2), sigma_max_change |-> Q(1, 4),
       learning_rate |-> One, learning_rate_decay |-> One,
       learning_rate_limit |-> One,
       weight_decay |-> Q(1, 4), rank_fitness |-> FALSE,
       forget_best |-> FALSE],
      [num_params |-> 2, popsize |-> 4, average_baseline |-> TRUE,
       elite_ratio |-> Q(1, 2),
       sigma_init |-> One, sigma_alpha |-> Zero, sigma_decay |-> Q(1, 2),
       sigma_limit |-> Q(1, 2), sigma_max_change |-> Q(1, 4),
       learning_rate |-> One, learning_rate_decay |-> One,
       learning_rate_limit |-> One,
       weight_decay |-> Zero, rank_fitness |-> FALSE,
       forget_best |-> FALSE],
      [num_params |-> 1, popsize |-> 3, average_baseline |-> FALSE,
       elite_ratio |-> Zero,
       sigma_init |-> One, sigma_alpha |-> Q(1, 2), sigma_decay |-> Q(1, 2),
       sigma_limit |-> Q(1, 4), sigma_max_change |-> Q(1, 4),
       learning_rate |-> One, learning_rate_decay |-> One,
       learning_rate_limit |-> One,
       weight_decay |-> Zero, rank_fitness |-> TRUE, forget_best |-> TRUE],
      [num_params |-> 1, popsize |-> 3, average_baseline |-> FALSE,
       elite_ratio |-> Zero,
       sigma_init |-> One, sigma_alpha |-> Q(1, 2), sigma_decay |-> Q(1, 2),
       sigma_limit |-> Q(1, 4), sigma_max_change |-> One,
       learning_rate |-> One, learning_rate_decay |-> One,
       learning_rate_limit |-> One,
       weight_decay |-> Zero, rank_fitness |-> TRUE, forget_best |-> TRUE] }

SimpleGAConfigs ==
    { [num_params |-> 1, popsize |-> 3, elite_ratio |-> Q(2, 3),
       sigma_init |-> One, sigma_decay |-> Q(1, 2), sigma_limit |-> Q(3, 4),
       forget_best |-> FALSE, weight_decay |-> Q(1, 2)],
      [num_params |-> 1, popsize |-> 2, elite_ratio |-> Half,
       sigma_init |-> One, sigma_decay |-> Q(1, 2), sigma_limit |-> Q(1, 4),
       forget_best |-> TRUE, weight_decay |-> Zero],
      [num_params |-> 1, popsize |-> 2, elite_ratio |-> Q(1, 4),
       sigma_init |-> One, sigma_decay |-> Q(1, 2), sigma_limit |-> Q(1, 4),
       forget_best |-> FALSE, weight_decay |-> Zero] }

(***************************************************************************)
(* The state machine: one strategy object, driven by a caller that calls   *)
(* ask(), tell() and set_mu() in any order.                                *)
(*   ret   the last call: its name, the exception it raised ("none" if     *)
(*         none), the value it returned, the argument it was given and,    *)
(*         for a tell(), the value of nask it found                        *)
(*   ntell the number of tell() calls that returned normally               *)
(*   nask  the number of ask() calls since the last such tell() and since  *)
(*         the last set_mu(), up to 2                                      *)
(*   last_ask  the population the most recent ask() returned               *)
(* evaluating and nevals belong to the novelty-search strategies and stay  *)
(* as they start here.                                                     *)
(***************************************************************************)
\* the draws of np.random.randn(rows, n)
Draws(rows, n) == [1..rows -> [1..n -> {RInt(v) : v \in NoiseVals}]]

\* score sequences of the expected length
Scores(n) == [1..n -> {RInt(v) : v \in 0..MaxScore}]

\* score sequences one too short and one too long
BadScores(n) == {Zeros(n - 1), Zeros(n + 1)}

Init ==
    /\ self \in {OpenES_init(c) : c \in OpenESConfigs}
                \cup {PEPG_init(c) : c \in PEPGConfigs}
                \cup {SimpleGA_init(c) : c \in SimpleGAConfigs}
    /\ ret = [op |-> "init", exc |-> "none", val |-> <<>>, arg |-> <<>>,
              asks |-> 0]
    /\ ntell = 0
    /\ nask = 0
    /\ last_ask = <<>>
    /\ evaluating = <<>>
    /\ nevals = 0

\* the budget allows one more generation to be evaluated
InBudget == (ntell + 1) * self.popsize <= MaxEvals

Asked(r) ==
    /\ self' = r.self
    /\ ret' = [op |-> "ask", exc |-> r.exc, val |-> r.val, arg |-> <<>>,
               asks |-> 0]
    /\ nask' = IF r.exc = "none" THEN Min2(nask + 1, 2) ELSE nask
    /\ last_ask' = IF r.exc = "none" THEN r.val ELSE last_ask
    /\ UNCHANGED <<ntell, evaluating, nevals>>

AskOpenES ==
    /\ self.class = "OpenES"
    /\ InBudget
    /\ \E z \in Draws(OpenES_noise_rows(self), self.num_params) :
          Asked(OpenES_ask(self, z))

AskPEPG ==
    /\ self.class = "PEPG"
    /\ InBudget
    /\ \E z \in Draws(self.batch_size, self.num_params) :
          Asked(PEPG_ask(self, z))

AskSimpleGA ==
    /\ self.class = "SimpleGA"
    /\ InBudget
    /\ \E z \in Draws(self.popsize, self.num_params),
          child_params \in SimpleGA_child_params(self) :
          Asked(SimpleGA_ask(self, z, child_params))

Tell ==
    /\ self.class \in {"OpenES", "PEPG", "SimpleGA"}
    /\ InBudget
    /\ \E scores \in Scores(self.popsize) \cup BadScores(self.popsize) :
          \E r \in {tell(self, scores)} :
              /\ self' = r.self
              /\ ret' = [op |-> "tell", exc |-> r.exc, val |-> <<>>,
                         arg |-> scores, asks |-> nask]
              /\ ntell' = IF r.exc = "none" THEN ntell + 1 ELSE ntell
              /\ nask' = IF r.exc = "none" THEN 0 ELSE nask
    /\ UNCHANGED <<last_ask, evaluating, nevals>>

\* set_mu(mu) with an array of num_params numbers
SetMu ==
    /\ self.class \in {"OpenES", "PEPG", "SimpleGA"}
    /\ InBudget
    /\ \E mu \in [1..self.num_params -> {RInt(v) : v \in MuVals}] :
          /\ self' = set_mu(self, Vec(mu))
          /\ ret' = [op |-> "set_mu", exc |-> "none", val |-> <<>>,
                     arg |-> Vec(mu), asks |-> 0]
    /\ nask' = 0
    /\ UNCHANGED <<ntell, last_ask, evaluating, nevals>>

Next == AskOpenES \/ AskPEPG \/ AskSimpleGA \/ Tell \/ SetMu

Spec == Init /\ [][Next]_vars

(***************************************************************************)
(* The novelty-search state machine.  tell() calls the evaluator it is     *)
(* handed after it has stepped the optimizer of the selected member and    *)
(* before it writes anything else, so a tell() takes two steps: the call   *)
(* up to the evaluator, and the evaluator's return or exception.  The      *)
(* evaluator is a function of the solution it is handed: it does not call  *)
(* the strategy.                                                           *)
(*   ret   also records the novelties and the evaluator's fitness that a   *)
(*         tell() which returned has used                                  *)
(*   evaluating  the calls of the evaluator in progress, at most one: the  *)
(*         solution handed to it and the arguments of the tell() that      *)
(*         waits for it                                                    *)
(*   nevals  the number of candidates evaluated so far: a metapopulation   *)
(*         for every init(), and popsize candidates and the new solution   *)
(*         for every tell() that has called its evaluator                  *)
(*   ntell counts the tell() calls that returned since the latest init().  *)
(***************************************************************************)
NSConfigs ==
    {[class |-> "NSES", num_params |-> 1,
      optimizer |-> [name |-> "sgd", stepsize |-> Q(1, 2)],
      weight |-> Zero, sigma |-> One, popsize |-> 2,
      metapopulation_size |-> 2, k |-> 1, antithetic |-> TRUE],
     [class |-> "NSRES", num_params |-> 1,
      optimizer |-> [name |-> "sgd", stepsize |-> Q(1, 2)],
      weight |-> Q(1, 2), sigma |-> One, popsize |-> 4,
      metapopulation_size |-> 1, k |-> 1, antithetic |-> TRUE],
     [class |-> "NSRAES", num_params |-> 1,
      optimizer |-> [name |-> "sgd", stepsize |-> Q(1, 2)],
      weight |-> Q(1, 2), weight_change |-> Q(1, 4),
      weight_change_threshold |-> 1, sigma |-> One, popsize |-> 2,
      metapopulation_size |-> 2, k |-> 1, antithetic |-> TRUE],
     [class |-> "NSRAES", num_params |-> 1,
      optimizer |-> [name |-> "sgd", stepsize |-> Q(1, 2)],
      weight |-> Zero, weight_change |-> Q(1, 4),
      weight_change_threshold |-> 1, sigma |-> Q(1, 2), popsize |-> 4,
      metapopulation_size |-> 1, k |-> 1, antithetic |-> TRUE],
     [class |-> "NSRAES", num_params |-> 1,
      optimizer |-> [name |-> "sgd", stepsize |-> Q(1, 2)],
      weight |-> One, weight_change |-> Q(1, 2),
      weight_change_threshold |-> 2, sigma |-> One, popsize |-> 3,
      metapopulation_size |-> 1, k |-> 1, antithetic |-> FALSE],
     [class |-> "NSRES", num_params |-> 1,
      optimizer |-> [name |-> "sgdm", stepsize |-> Q(1, 2),
                     momentum |-> Q(1, 2)],
      weight |-> One, sigma |-> One, popsize |-> 2,
      metapopulation_size |-> 2, k |-> 1, antithetic |-> TRUE],
     [class |-> "NSRES", num_params |-> 1,
      optimizer |-> [name |-> "sgdm", stepsize |-> Q(1, 2),
                     momentum |-> Q(1, 2)],
      weight |-> Q(1, 2), sigma |-> One, popsize |-> 1,
      metapopulation_size |-> 2, k |-> 1, antithetic |-> FALSE]}

\* the constructor of the class the configuration names
NS_construct(c) ==
    CASE c.class = "NSES"   -> NSES_init(c)
      [] c.class = "NSRES"  -> NSRES_init(c)
      [] c.class = "NSRAES" -> NSRAES_init(c)

\* the fitness values and the behaviour characteristics an evaluator returns
Fitnesses == {Zero, One}

Characteristics == {<<Zero>>, <<One>>}

\* the archives init() starts from: all members behave alike, or each in
\* its own way
InitArchives(m) ==
    {Vec([i \in 1..m |-> <<Zero>>]), Vec([i \in 1..m |-> <<RInt(i)>>])}

\* the fitness scores and the novelties handed to tell(): rising and
\* falling along the population (only their ranks enter the update)
Rankings(n) ==
    {Vec([i \in 1..n |-> RInt(i)]), Vec([i \in 1..n |-> RInt(n - i)])}

\* the budget allows one more tell(): a tell() that reaches the evaluator
\* stands for popsize evaluated candidates and evaluates the new solution
InBudgetNS == nevals + self.popsize + 1 <= MaxEvals

\* the budget allows init() to evaluate one more metapopulation
InBudgetInit == nevals + self.metapopulation_size <= MaxEvals

NoCall == [op |-> "init", exc |-> "none", val |-> <<>>, arg |-> <<>>,
           asks |-> 0, novelties |-> <<>>, fitness |-> UnsetR]

InitNS ==
    /\ self \in {NS_construct(c) : c \in NSConfigs}
    /\ ret = NoCall
    /\ ntell = 0
    /\ nask = 0
    /\ last_ask = <<>>
    /\ evaluating = <<>>
    /\ nevals = 0

\* init(evaluator): the first call, or a later one that starts again from
\* a new metapopulation and a new archive
InitPopulation ==
    /\ InBudgetInit
    /\ evaluating = <<>>
    /\ \E pop \in Draws(self.metapopulation_size, self.num_params),
          fitness \in [1..self.metapopulation_size -> Fitnesses],
          characteristics \in InitArchives(self.metapopulation_size) :
          LET r == NSAbstract_init_population(self, pop, fitness,
                                              characteristics)
          IN  /\ self' = r.self
              /\ ret' = [NoCall EXCEPT !.op = "init_population"]
    /\ ntell' = 0
    /\ nevals' = nevals + self.metapopulation_size
    /\ UNCHANGED <<nask, last_ask, evaluating>>

AskNS ==
    /\ InBudgetNS
    /\ evaluating = <<>>
    /\ \E z \in Draws(NS_noise_rows(self), self.num_params),
          pick \in 0..self.metapopulation_size :
          \E r \in {NSAbstract_ask(self, z, pick)} :
              /\ self' = r.self
              /\ ret' = [NoCall EXCEPT !.op = "ask", !.exc = r.exc,
                                       !.val = r.val]
              /\ nask' = IF r.exc = "none" THEN Min2(nask + 1, 2) ELSE nask
              /\ last_ask' = IF r.exc = "none" THEN r.val ELSE last_ask
    /\ UNCHANGED <<ntell, evaluating, nevals>>

\* tell(scores, novelties, evaluator) up to its call of the evaluator, or
\* to the exception it raises before
TellNS ==
    /\ InBudgetNS
    /\ evaluating = <<>>
    /\ \E scores \in Rankings(self.popsize) \cup BadScores(self.popsize),
          novelties \in Rankings(self.popsize) :
          \E r \in {NSAbstract_tell_begin(self, scores, novelties)} :
              /\ self' = r.self
              /\ ret' = IF r.exc = "none" THEN ret
                         ELSE [NoCall EXCEPT !.op = "tell", !.exc = r.exc,
                                             !.arg = scores, !.asks = nask]
              /\ evaluating' = IF r.exc = "none"
                                THEN <<[new_sol |-> r.new_sol,
                                        arg |-> scores,
                                        novelties |-> novelties]>>
                                ELSE <<>>
    /\ UNCHANGED <<ntell, nask, last_ask, nevals>>

\* the evaluator returns a fitness and a characteristic, and tell() writes
\* the new solution and returns
EvaluatorReturns ==
    /\ evaluating # <<>>
    /\ \E fitness \in Fitnesses, characteristic \in Characteristics :
          \E r \in {NSAbstract_tell_assign(self, evaluating[1].new_sol,
                                             fitness, characteristic)} :
              /\ self' = r.self
              /\ ret' = [NoCall EXCEPT !.op = "tell",
                                       !.arg = evaluating[1].arg,
                                       !.asks = nask,
                                       !.novelties = evaluating[1].novelties,
                                       !.fitness = fitness]
    /\ evaluating' = <<>>
    /\ ntell' = ntell + 1
    /\ nask' = 0
    /\ nevals' = nevals + self.popsize + 1
    /\ UNCHANGED last_ask

\* the evaluator raises, and its exception leaves tell() with nothing
\* written but the optimizer's step
EvaluatorRaises ==
    /\ evaluating # <<>>
    /\ ret' = [NoCall EXCEPT !.op = "tell", !.exc = "Exception",
                             !.arg = evaluating[1].arg, !.asks = nask]
    /\ evaluating' = <<>>
    /\ nevals' = nevals + self.popsize + 1
    /\ UNCHANGED <<self, ntell, nask, last_ask>>

\* set_mu(mu) with an array of num_params numbers
SetMuNS ==
    /\ InBudgetNS
    /\ evaluating = <<>>
    /\ \E mu \in [1..self.num_params -> {RInt(v) : v \in MuVals}] :
          /\ self' = set_mu(self, Vec(mu))
          /\ ret' = [NoCall EXCEPT !.op = "set_mu", !.arg = Vec(mu)]
    /\ UNCHANGED <<ntell, nask, last_ask, evaluating, nevals>>

NextNS ==
    \/ InitPopulation
    \/ AskNS
    \/ TellNS
    \/ EvaluatorReturns
    \/ EvaluatorRaises
    \/ SetMuNS

SpecNS == InitNS /\ [][NextNS]_vars

(***************************************************************************)
(* Properties of OpenES, PEPG and SimpleGA, checked under Spec.            *)
(***************************************************************************)
ClassicClasses == {"OpenES", "PEPG", "SimpleGA"}

\* C1: a tell() whose score sequence does not have exactly popsize entries
\* is rejected with an assertion failure and leaves every field of the
\* strategy object as it was, for OpenES, PEPG and SimpleGA, in any
\* reachable state.
C1_WrongLengthTellRejected ==
    [][(ret'.op = "tell" /\ Len(ret'.arg) # self.popsize)
          => (ret'.exc = "AssertionError" /\ self' = self)]_vars

\* C1 witness: an OpenES object that has already completed a generation has
\* just rejected a score sequence of the wrong length.
C1_Witness ==
    /\ self.class = "OpenES"
    /\ ntell >= 1
    /\ ret.op = "tell"
    /\ Len(ret.arg) # self.popsize
    /\ ret.exc = "AssertionError"

\* sigma of the object, one entry per dimension (OpenES and SimpleGA keep
\* a scalar)
SigmaVec(s) == IF s.class = "PEPG" THEN s.sigma ELSE <<s.sigma>>

\* C2 (as stated): with sigma_init >= sigma_limit and 0 < sigma_decay <= 1,
\* sigma stays >= sigma_limit in every dimension after any number of tell()
\* calls, for OpenES, PEPG and SimpleGA.
C2_SigmaNeverBelowLimit ==
    (/\ self.class \in ClassicClasses
     /\ RGe(self.sigma_init, self.sigma_limit)
     /\ RGt(self.sigma_decay, Zero)
     /\ RLe(self.sigma_decay, One))
        => \A j \in 1..Len(SigmaVec(self)) :
               RGe(SigmaVec(self)[j], self.sigma_limit)

\* the last call was a PEPG.ask that returned a population; ask() leaves
\* the mean alone, so self.mu is the mean at the time of the ask
PEPGAsked == self.class = "PEPG" /\ ret.op = "ask" /\ ret.exc = "none"

\* members first+i and first+batch_size+i of the returned population lie
\* opposite each other about the mean, for every i in [0, batch_size)
Mirrored(first) ==
    \A i \in 0..(self.batch_size - 1) :
        VSub(ret.val[first + i], self.mu)
            = VNeg(VSub(ret.val[first + self.batch_size + i], self.mu))

\* C5 (as stated): with average_baseline=False every PEPG.ask() returns
\* popsize+1 candidates, the unperturbed mean first and the antithetic
\* perturbations after it.
C5_BaselineAskReturnsPopsizePlusOne ==
    (PEPGAsked /\ ~self.average_baseline)
        => /\ Len(ret.val) = self.popsize + 1
           /\ ret.val[1] = self.mu
           /\ Mirrored(2)

\* C5 (amended): with average_baseline=False every PEPG.ask() returns
\* popsize candidates: the unperturbed mean first, then the popsize-1
\* antithetic perturbations, batch_size = (popsize-1)/2 of them drawn and
\* the same number mirrored.
C5_BaselineAskReturnsPopsize ==
    (PEPGAsked /\ ~self.average_baseline)
        => /\ Len(ret.val) = self.popsize
           /\ self.popsize = 1 + 2 * self.batch_size
           /\ ret.val[1] = self.mu
           /\ \A i \in 1..self.batch_size :
                  VSub(ret.val[1 + i], self.mu) = self.epsilon[i]
           /\ Mirrored(2)

\* C5 witness: a baseline-mode PEPG whose mean has already moved off the
\* origin has returned a population with a perturbed member.
C5_Witness ==
    /\ PEPGAsked
    /\ ~self.average_baseline
    /\ ntell >= 1
    /\ self.mu # Zeros(self.num_params)
    /\ ret.val[2] # self.mu

\* C6 (as stated): for every population PEPG.ask() returns, in either
\* baseline mode, population[i] - mean = -(population[batch_size+i] - mean)
\* for every i in [0, batch_size) (0-based members).
C6_PairsAtIAndBatchPlusI == PEPGAsked => Mirrored(1)

\* C6 (amended): the pairing holds at 0-based members i and batch_size+i
\* when average_baseline=True; with average_baseline=False the mean sits at
\* member 0 and the pairs are members 1+i and 1+batch_size+i.
C6_PairsAfterBaseline ==
    PEPGAsked => Mirrored(IF self.average_baseline THEN 1 ELSE 2)

\* C6 witness: a PEPG in the average-baseline mode whose mean has moved off
\* the origin has returned a population with a perturbed pair.
C6_Witness ==
    /\ PEPGAsked
    /\ self.average_baseline
    /\ ntell >= 1
    /\ self.mu # Zeros(self.num_params)
    /\ ret.val[1] # ret.val[1 + self.batch_size]

\* C7 (as stated): for every strategy, SimpleGA included, best_param()
\* called after at least one tell() does not fail and returns the vector
\* that result() reports as its first component.
C7_BestParamCallReturnsBest ==
    (ntell >= 1 /\ self.class \in ClassicClasses)
        => /\ best_param(self).exc = "none"
           /\ best_param(self).val = result(self).val[1]

\* the last call was the first successful SimpleGA.tell; self.solutions is
\* still the population that was told and ret.arg the scores given
GAFirstTold ==
    /\ self.class = "SimpleGA"
    /\ self.elite_popsize >= 1
    /\ ret.op = "tell"
    /\ ret.exc = "none"
    /\ ntell = 1

Injective(f) == \A a, b \in DOMAIN f : f[a] = f[b] => a = b

\* elite_params holds elite_popsize distinct members of the told
\* population, none of the members left out beats a member kept under the
\* given merit, and with_rewards asks elite_rewards to hold their merits
ElitesAreTopBy(merit, with_rewards) ==
    \E f \in [1..self.elite_popsize -> 1..self.popsize] :
        /\ Injective(f)
        /\ \A k \in 1..self.elite_popsize :
              /\ self.elite_params[k] = self.solutions[f[k]]
              /\ with_rewards => self.elite_rewards[k] = merit[f[k]]
        /\ \A j \in 1..self.popsize :
              (\A k \in 1..self.elite_popsize : f[k] # j)
                  => \A k \in 1..self.elite_popsize :
                         RLe(merit[j], merit[f[k]])

\* best_reward is the largest entry of elite_rewards
BestRewardIsMaxElite ==
    /\ \E k \in 1..self.elite_popsize :
           self.best_reward = self.elite_rewards[k]
    /\ \A k \in 1..self.elite_popsize :
           RLe(self.elite_rewards[k], self.best_reward)

\* C8 (as stated): after the first tell() of a SimpleGA with
\* elite_popsize >= 1, elite_params has exactly elite_popsize rows, the
\* elites are the elite_popsize highest-scoring members of the told
\* population, and best_reward = max(elite_rewards).
C8_ElitesAreHighestScoring ==
    GAFirstTold
        => /\ Len(self.elite_params) = self.elite_popsize
           /\ ElitesAreTopBy(ret.arg, FALSE)
           /\ BestRewardIsMaxElite

\* the score of each told member after the weight-decay penalty
\* weight_decay * mean(solution^2) has been taken off
PenalisedScores ==
    IF RGt(self.weight_decay, Zero)
    THEN Vec([i \in 1..self.popsize |->
            RSub(ret.arg[i],
                 RMul(self.weight_decay,
                      RMean(VMul(self.solutions[i], self.solutions[i]))))])
    ELSE ret.arg

\* C8 (amended): after the first tell() of a SimpleGA with
\* 1 <= elite_popsize <= popsize, elite_params has exactly elite_popsize
\* rows, the elites are the elite_popsize members of the told population
\* that rank highest by score minus weight_decay * mean(solution^2) (the
\* plain score when weight_decay = 0), elite_rewards holds those penalised
\* scores, and best_reward = max(elite_rewards).
C8_ElitesAreHighestPenalised ==
    GAFirstTold
        => /\ Len(self.elite_params) = self.elite_popsize
           /\ ElitesAreTopBy(PenalisedScores, TRUE)
           /\ BestRewardIsMaxElite

\* C8 witness: a first tell() with unequal scores on a population of
\* unequal members, under a weight-decay penalty, that kept two of three.
C8_Witness ==
    /\ GAFirstTold
    /\ RGt(self.weight_decay, Zero)
    /\ self.elite_popsize = 2
    /\ self.popsize = 3
    /\ \E i, j \in 1..self.popsize :
          /\ ret.arg[i] # ret.arg[j]
          /\ self.solutions[i] # self.solutions[j]

\* the strategies C9 speaks of
FixedSizeAsk(s) ==
    \/ s.class \in {"OpenES", "SimpleGA"}
    \/ s.class = "PEPG" /\ s.average_baseline

\* the object with its stored candidates and noise replaced by what the
\* population pop determines: the candidates themselves, their offsets from
\* the mean (PEPG) and those offsets divided by sigma (OpenES)
WithAsk(s, pop) ==
    CASE s.class = "OpenES" ->
            [s EXCEPT !.solutions = pop,
                      !.epsilon = Vec([i \in 1..Len(pop) |->
                          VScale(RDiv(One, s.sigma), VSub(pop[i], s.mu))])]
      [] s.class = "PEPG" ->
            [s EXCEPT !.solutions = pop,
                      !.epsilon_full = Vec([i \in 1..Len(pop) |->
                                              VSub(pop[i], s.mu)]),
                      !.epsilon = Vec([i \in 1..s.batch_size |->
                                         VSub(pop[i], s.mu)])]
      [] s.class = "SimpleGA" -> [s EXCEPT !.solutions = pop]

\* the mean of the object holds numbers, so that the noise of an ask() can
\* be recovered from the candidates it returned
MeanIsNumeric(s) ==
    s.class = "OpenES" => \A j \in 1..s.num_params : ~IsNaN(s.mu[j])

\* the ask() steps return popsize candidates of num_params entries each,
\* and the accepted tell() steps that follow an ask() are computed from
\* the population of the latest ask()
AskSizeAndLatestAskOnly ==
         /\ (ret'.op = "ask") =>
               /\ ret'.exc = "none"
               /\ Len(ret'.val) = self.popsize
               /\ \A i \in 1..Len(ret'.val) :
                     Len(ret'.val[i]) = self.num_params
               /\ self'.solutions = ret'.val
         /\ (/\ ret'.op = "tell"
             /\ ret'.exc = "none"
             /\ nask >= 1
             /\ MeanIsNumeric(self)) =>
               self' = tell(WithAsk(self, last_ask), ret'.arg).self

\* a SimpleGA whose elite pool is empty: int(popsize * elite_ratio) is 0
NoElite(s) == s.class = "SimpleGA" /\ s.elite_popsize = 0

ShapedScores(s, scores, pop) ==
    LET ranked == IF s.rank_fitness THEN compute_centered_ranks(scores)
                  ELSE scores
    IN  IF RGt(s.weight_decay, Zero)
        THEN Vec([i \in 1..Len(scores) |->
                reward_dtype(s.rank_fitness,
                    RSub(ranked[i],
                         RMul(s.weight_decay,
                              RMean(VMul(pop[i], pop[i])))))])
        ELSE ranked

\* C10: for OpenES with the plain sgd optimizer, an accepted tell(scores)
\* that follows an ask(), with no set_mu() in between, moves the mean by
\* exactly +stepsize * g, where
\* g = (1/(popsize*sigma)) * epsilon^T . centered_ranks(shaped scores), the
\* centred ranks being the float32 numbers compute_centered_ranks returns,
\* and sigma and epsilon are those of the preceding ask(); with antithetic
\* sampling that move is a sum over the pairs of a multiple of (member i -
\* member half+i) that is positive when member i has the higher shaped
\* score and negative when its mirror has.
C10_SgdMeanAscends ==
    [][(/\ self.class = "OpenES"
        /\ self.optimizer.name = "sgd"
        /\ ret'.op = "tell"
        /\ ret'.exc = "none"
        /\ nask >= 1)
        =>
        \E shaped \in {ShapedScores(self, ret'.arg, last_ask)} :
        \E cr \in {compute_centered_ranks(shaped)} :
        \E epsilon \in {Vec([i \in 1..self.popsize |->
                            VScale(RDiv(One, self.sigma),
                                   VSub(last_ask[i], self.mu))])} :
        \E g \in {Vec([j \in 1..self.num_params |->
                      RMul(RDiv(One, RMul(RInt(self.popsize), self.sigma)),
                           RSum(Vec([i \in 1..self.popsize |->
                                   RMul(epsilon[i][j], cr[i])])))])} :
        LET half == self.popsize \div 2
        IN
        \E coef \in {Vec([i \in 1..half |->
                         RDiv(RMul(self.optimizer.stepsize,
                                   RSub(cr[i], cr[half + i])),
                              RMul(RInt(2 * self.popsize),
                                   RMul(self.sigma, self.sigma)))])} :
            /\ self'.mu = VAdd(self.mu, VScale(self.optimizer.stepsize, g))
            /\ self.antithetic =>
                  /\ \A j \in 1..self.num_params :
                        RSub(self'.mu[j], self.mu[j])
                          = RSum(Vec([i \in 1..half |->
                                    RMul(coef[i],
                                         RSub(last_ask[i][j],
                                              last_ask[half + i][j]))]))
                  /\ \A i \in 1..half :
                        /\ RGt(shaped[i], shaped[half + i])
                              => RGt(coef[i], Zero)
                        /\ RLt(shaped[i], shaped[half + i])
                              => RLt(coef[i], Zero)]_vars

\* C10 witness: an antithetic OpenES of four members with the sgd optimizer
\* has accepted unequal scores for the population of an ask() and its mean
\* is off the origin.
C10_Witness ==
    /\ self.class = "OpenES"
    /\ self.optimizer.name = "sgd"
    /\ self.antithetic
    /\ self.popsize = 4
    /\ ret.op = "tell"
    /\ ret.exc = "none"
    /\ ret.asks >= 1
    /\ \E i, j \in 1..self.popsize : ret.arg[i] # ret.arg[j]
    /\ self.mu # Zeros(self.num_params)

\* some number the OpenES object holds is NaN
OpenES_holds_NaN(s) ==
    \/ \E j \in 1..s.num_params : IsNaN(s.mu[j]) \/ IsNaN(s.best_mu[j])
    \/ IsNaN(s.best_reward)
    \/ IsNaN(s.curr_best_reward)
    \/ IsNaN(s.sigma)
    \/ "v" \in DOMAIN s.optimizer
          /\ \E j \in 1..s.num_params : IsNaN(s.optimizer.v[j])

\* C11 (as stated): with a population of size 1 the rank transform divides
\* by n - 1 = 0; tell() rejects the call or leaves the state as it was, so
\* that the result of that division is never stored into the mean or any
\* other state of the strategy.
C11_SingletonRankNeverStored ==
    [][(self.class = "OpenES" /\ self.popsize = 1 /\ ret'.op = "tell")
          => \/ ret'.exc # "none"
             \/ self' = self
             \/ ~OpenES_holds_NaN(self')]_vars

\* the step is a PEPG.tell that returned
PEPGTold == self.class = "PEPG" /\ ret'.op = "tell" /\ ret'.exc = "none"

\* the sigma_j a PEPG.tell() starts from: sigma_init at the first tell(),
\* where sigma is reset
PreSigma(j) == IF self.first_interation THEN self.sigma_init ELSE self.sigma[j]

\* the new sigma_j is y, or y * sigma_decay where the decay applies, for a
\* y that differs from pre by at most sigma_max_change * pre; it is at most
\* (1 + sigma_max_change) * pre and, for sigma_max_change < 1, positive
SigmaChangeClamped(j, pre) ==
    \E bound \in {RMul(self.sigma_max_change, pre)} :
        /\ \E y \in {self'.sigma[j],
                      RDiv(self'.sigma[j], self.sigma_decay)} :
              /\ self'.sigma[j] =
                    IF /\ RLt(self.sigma_decay, One)
                       /\ RGt(y, self.sigma_limit)
                    THEN RMul(y, self.sigma_decay) ELSE y
              /\ RLe(RSub(y, pre), bound)
              /\ RGe(RSub(y, pre), RNeg(bound))
        /\ RLe(self'.sigma[j],
               RMul(RAdd(One, self.sigma_max_change), pre))
        /\ RLt(self.sigma_max_change, One)
              => RGt(self'.sigma[j], Zero)

GradientTold ==
    /\ self.class \in {"OpenES", "PEPG"}
    /\ ret'.op = "tell"
    /\ ret'.exc = "none"

\* C15 (as stated): for OpenES and PEPG constructed with rank_fitness=False
\* and forget_best=False, a tell() after the first never lowers best_reward
\* and overwrites (best_mu, best_reward) only when the best reward of the
\* iteration is strictly greater than best_reward; with forget_best on, or
\* rank_fitness=True, which forces it on, best_reward equals
\* curr_best_reward after every tell().
C15_BestKeptUnlessImproved ==
    [][/\ (self.class \in {"OpenES", "PEPG"} /\ self.rank_fitness)
             => self.forget_best
       /\ (GradientTold /\ ~self.forget_best /\ ~self.first_interation) =>
             /\ RGe(self'.best_reward, self.best_reward)
             /\ (\/ self'.best_mu # self.best_mu
                 \/ self'.best_reward # self.best_reward)
                   => RGt(self'.curr_best_reward, self.best_reward)
       /\ (GradientTold /\ self.forget_best) =>
             self'.best_reward = self'.curr_best_reward]_vars

\* the step is a tell() that returned, of a SimpleGA that keeps its elite
\* and has one
ElitistTold ==
    /\ self.class = "SimpleGA"
    /\ ~self.forget_best
    /\ self.elite_popsize >= 1
    /\ ret'.op = "tell"
    /\ ret'.exc = "none"

\* C16: for SimpleGA with forget_best=False and elite_popsize >= 1, after
\* every tell() elite_rewards is in descending order and best_reward equals
\* elite_rewards[0], and from one tell() to the next elite_rewards[0] does
\* not decrease.
C16_TopEliteNeverDecreases ==
    [][ElitistTold =>
        /\ Len(self'.elite_rewards) = self.elite_popsize
        /\ \A k \in 1..(self.elite_popsize - 1) :
              RGe(self'.elite_rewards[k], self'.elite_rewards[k + 1])
        /\ self'.best_reward = self'.elite_rewards[1]
        /\ ~self.first_iteration =>
              RGe(self'.elite_rewards[1], self.elite_rewards[1])]_vars

\* C16 witness: a SimpleGA that keeps its elite has been told a second
\* time, with scores that all lie below its top elite reward, which
\* therefore comes from the first tell(); the two elites differ in reward.
C16_Witness ==
    /\ self.class = "SimpleGA"
    /\ ~self.forget_best
    /\ self.elite_popsize = 2
    /\ ret.op = "tell"
    /\ ret.exc = "none"
    /\ ntell = 2
    /\ \A i \in 1..self.popsize : RLt(ret.arg[i], self.elite_rewards[1])
    /\ RGt(self.elite_rewards[1], self.elite_rewards[2])

(***************************************************************************)
(* Properties of the novelty-search family, checked under SpecNS.          *)
(***************************************************************************)
\* the step is a tell() that returns, its evaluator having returned
NSTold == evaluating # <<>> /\ ret'.op = "tell" /\ ret'.exc = "none"

\* the step is a tell() that reaches its call of the evaluator
NSEvaluatorCalled == evaluating = <<>> /\ evaluating' # <<>>

\* the step is an init()
NSInitCalled ==
    evaluating = <<>> /\ evaluating' = <<>> /\ ret'.op = "init_population"

\* the larger of two numbers, for the cap at 0 that C3 states
RMax(a, b) == IF RGt(b, a) THEN b ELSE a

\* C3 (as stated): for NSRAES with init_weight in [0,1] and
\* weight_change > 0, every update_bests leaves the weight within [0,1]:
\* an improvement raises it by weight_change, capped at 1, and the
\* weight_change_threshold-th consecutive update without improvement lowers
\* it by weight_change, capped at 0; the stagnation counter is 0 after each
\* such change.
C3_AdaptiveWeightStaysInUnitInterval ==
    [][(self.class = "NSRAES" /\ NSTold)
        =>
        LET improved == RGt(ret'.fitness, self.best_reward)
            stalled  == /\ ~improved
                        /\ self.best_time + 1 >= self.weight_change_threshold
        IN  /\ RGe(self'.weight, Zero)
            /\ RLe(self'.weight, One)
            /\ improved =>
                 /\ self'.weight
                       = RMin(One, RAdd(self.weight, self.weight_change))
                 /\ self'.best_time = 0
            /\ stalled =>
                 /\ self'.weight
                       = RMax(Zero, RSub(self.weight, self.weight_change))
                 /\ self'.best_time = 0]_vars

\* C4 (as stated): NSES is pure novelty search: a tell() from the same
\* state, with the same noise and the same novelties but any other fitness
\* scores, computes the same new solution for the selected metapopulation
\* slot.
C4_FitnessDoesNotMoveSolution ==
    [][(self.class = "NSES" /\ NSEvaluatorCalled)
        => \A scores \in Rankings(self.popsize) :
              evaluating'[1].new_sol
                 = NS_new_sol(self, scores,
                              evaluating'[1].novelties).new_sol]_vars

\* C13: for the novelty-search strategies the archive is append-only after
\* init(): a tell() that returns appends exactly one characteristic, the
\* one the evaluator gave for the new solution, and leaves the earlier
\* entries as they were; no other call but an init(), which starts the
\* archive, changes it; its length is metapopulation_size plus the number
\* of tell() calls that returned since the latest init(); every entry of
\* characteristics_indices is an index into the archive, and after a
\* tell() the selected slot points at the newest entry.
C13_ArchiveAppendOnly ==
    [][/\ (self.initialised /\ NSTold) =>
             /\ Len(self'.characteristics) = Len(self.characteristics) + 1
             /\ SubSeq(self'.characteristics, 1, Len(self.characteristics))
                    = self.characteristics
             /\ self'.characteristics_indices[self.current_index]
                    = Len(self'.characteristics)
       /\ (self.initialised /\ ~NSTold /\ ~NSInitCalled) =>
             self'.characteristics = self.characteristics
       /\ self'.initialised =>
             /\ Len(self'.characteristics)
                    = self.metapopulation_size + ntell'
             /\ Len(self'.characteristics_indices)
                    = self.metapopulation_size
             /\ \A m \in 1..self.metapopulation_size :
                    self'.characteristics_indices[m]
                        \in 1..Len(self'.characteristics)]_vars

\* C13 witness: a strategy with two members has been told twice, each
\* member once, so that neither slot points at its initial archive entry.
C13_Witness ==
    /\ self.initialised
    /\ self.metapopulation_size = 2
    /\ ntell = 2
    /\ evaluating = <<>>
    /\ ret.op = "tell"
    /\ ret.exc = "none"
    /\ Len(self.characteristics) = 4
    /\ self.characteristics_indices \in {<<3, 4>>, <<4, 3>>}

\* C14: a novelty-search tell() changes only the slot that the preceding
\* ask() selected.  Up to its call of the evaluator it changes nothing but
\* the optimizer of the selected member, by exactly one compute_step on
\* the negated gradient, and the solution it hands to the evaluator is the
\* solution the ask() selected (self.current_solution) plus that step.
\* When the evaluator returns, tell() writes that solution into the
\* selected slot and points the slot at a new archive entry; the solution
\* and the archive index of every other member and every optimizer are as
\* before.  When the evaluator raises, nothing more changes.  The
\* selection itself is never changed.
C14_TellChangesSelectedSlotOnly ==
    [][/\ NSEvaluatorCalled =>
          \E novelties \in {compute_centered_ranks(
                                evaluating'[1].novelties)},
             rewards \in {compute_centered_ranks(evaluating'[1].arg)} :
          \E gradient \in {get_gradient(self, novelties, rewards)} :
          \E os \in {compute_step(self.optimizers[self.current_index],
                                  VNeg(gradient))} :
             /\ self' = [self EXCEPT
                            !.optimizers[self.current_index] = os.opt]
             /\ evaluating'[1].new_sol
                    = VAdd(self.current_solution, os.step)
       /\ NSTold =>
          /\ \A m \in 1..self.metapopulation_size :
                m # self.current_index =>
                   /\ self'.population[m] = self.population[m]
                   /\ self'.characteristics_indices[m]
                          = self.characteristics_indices[m]
          /\ self'.optimizers = self.optimizers
          /\ self'.population[self.current_index] = evaluating[1].new_sol
          /\ self'.current_index = self.current_index
       /\ (evaluating' = <<>> /\ ret'.op = "tell" /\ ret'.exc # "none")
             => self' = self]_vars

\* C14 witness: of two members with momentum optimizers the second was
\* selected and told; its momentum buffer holds a number other than 0 and
\* the buffer of the first member is still 0.
C14_Witness ==
    /\ self.initialised
    /\ self.metapopulation_size = 2
    /\ self.current_index = 2
    /\ evaluating = <<>>
    /\ ret.op = "tell"
    /\ ret.exc = "none"
    /\ self.optimizers[1].name = "sgdm"
    /\ self.optimizers[1].v = Zeros(self.num_params)
    /\ ~IsNaN(self.optimizers[2].v[1])
    /\ self.optimizers[2].v # Zeros(self.num_params)

====
